---- MODULE Spec2Model ----
(***************************************************************************)
(* Model of the DMP narrative generator: the narrative request handler    *)
(* (server.ts), the data access layer (dataAccess.ts) with the            *)
(* freshness reconciliation of the DynamoDB copy against the RDS plan,    *)
(* and the permission gate.                                                *)
(***************************************************************************)
EXTENDS Integers, Sequences, FiniteSets, TLC

VARIABLES
  rds,       \* the plan's row in the relational source of record (or undefined)
  dynamo,    \* the latest maDMP record of the plan in DynamoDB (or undefined)
  reqs,      \* the narrative requests in flight: local variables and response
  permCall,  \* one call of hasPermissionToDownloadNarrative: arguments and result
  pdf,       \* the executions of renderPDF: position, browser and outcome
  call       \* one call of a rendering function: arguments and result

serverVars == <<rds, dynamo, reqs>>
pureVars == <<permCall, pdf, call>>
vars == <<rds, dynamo, reqs, permCall, pdf, call>>

----------------------------------------------------------------------------
(* Bounds *)

\* number of narrative requests that may be in flight together
NumReq == 2
\* number of distinct values of plans.modified
MaxTime == 2

Requests == 1..NumReq
MySQLTimes == 1..MaxTime

----------------------------------------------------------------------------
(* JavaScript values: undefined / optional values *)

Undefined == <<>>
Some(x) == <<x>>
IsDefined(o) == o # <<>>
Get(o) == o[1]

----------------------------------------------------------------------------
(* The permission gate *)

\* c?.affiliation[0]?.affiliation_id?.identifier throws a TypeError when c is
\* defined and has no affiliation list
FirstAffiliationThrows(c) ==
  IsDefined(c) /\ ~IsDefined(Get(c).affiliation)

\* c?.affiliation[0]?.affiliation_id?.identifier
FirstAffiliation(c) ==
  IF ~IsDefined(c) THEN Undefined
  ELSE IF Len(Get(Get(c).affiliation)) = 0 THEN Undefined
  ELSE Get(Get(c).affiliation)[1]

\* whether the gate throws instead of returning
hasPermissionThrows(data, userDMPs, token) ==
  /\ Get(Get(data).dmp).privacy # "public"
  /\ IsDefined(token)
  /\ Get(token).role # "SUPERADMIN"
  /\ \/ FirstAffiliationThrows(Get(Get(data).dmp).contact)
     \/ /\ IsDefined(Get(Get(data).dmp).contributor)
        /\ \E i \in 1..Len(Get(Get(Get(data).dmp).contributor)) :
             FirstAffiliationThrows(Get(Get(Get(data).dmp).contributor)[i])

\* the list of affiliation identifiers the gate collects
PlanAffiliations(dmp) ==
  <<FirstAffiliation(dmp.contact)>> \o
  (IF IsDefined(dmp.contributor)
     THEN [i \in 1..Len(Get(dmp.contributor)) |-> FirstAffiliation(Get(dmp.contributor)[i])]
     ELSE <<>>)

\* Array.prototype.includes
Includes(list, x) == \E i \in 1..Len(list) : list[i] = x

hasPermissionToDownloadNarrative(data, userDMPs, token) ==
  LET dmp == Get(Get(data).dmp) IN
  IF dmp.privacy = "public" THEN TRUE
  ELSE IF ~IsDefined(token) THEN FALSE
  ELSE IF Get(token).role = "SUPERADMIN" THEN TRUE
  ELSE \/ /\ Get(token).role = "ADMIN"
          /\ Includes(PlanAffiliations(dmp), Get(token).affiliationId)
       \/ \E i \in 1..Len(userDMPs) : userDMPs[i].dmpId = dmp.dmp_id

----------------------------------------------------------------------------
(* The source of record (RDS) and the DynamoDB copy *)

DmpId == "dmpA"
Visibilities == {"public", "private"}

\* The rows the plans table can hold for the plan.  complete says whether the
\* plan's detail rows allow planToDMPCommonStandard to produce a document.
PlanRows ==
  [id : {123}, dmpId : {DmpId}, modified : MySQLTimes,
   visibility : Visibilities, complete : BOOLEAN]

JsNull == <<[null |-> TRUE]>>

\* RFC 3339 rendering of a MySQL DATETIME (null when there is none)
convertMySQLDateTimeToRFC3339(dateTime) ==
  IF IsDefined(dateTime) THEN Some([rfc3339 |-> Get(dateTime)]) ELSE JsNull

\* The maDMP record planToDMPCommonStandard builds from the plan's rows
BuildMaDMP(row) ==
  Some([dmp |-> Some([
    dmp_id |-> row.dmpId,
    modified |-> Get(convertMySQLDateTimeToRFC3339(Some(row.modified))),
    privacy |-> row.visibility,
    contact |-> Some([affiliation |-> Some(<<Some("affA")>>)]),
    contributor |-> Some(<<Some([affiliation |-> Some(<<Some("affB")>>)])>>)])])

\* The results planToDMPCommonStandard can return for the plan's current rows
\* (a record, a record without dmp, or nothing)
planToDMPCommonStandard(row) ==
  IF row.complete THEN {BuildMaDMP(row)}
  ELSE {Undefined, Some([dmp |-> Undefined])}

\* maDMP?.dmp?.modified
ModifiedOf(maDMP) ==
  IF ~IsDefined(maDMP) THEN Undefined
  ELSE IF ~IsDefined(Get(maDMP).dmp) THEN Undefined
  ELSE Some(Get(Get(maDMP).dmp).modified)

\* maDMP && maDMP.dmp
HasDmp(maDMP) == IsDefined(maDMP) /\ IsDefined(Get(maDMP).dmp)

\* const rdsDate = convertMySQLDateTimeToRFC3339(plan?.modified)
RdsDate(plan) ==
  convertMySQLDateTimeToRFC3339(
    IF IsDefined(plan) THEN Some(Get(plan).modified) ELSE Undefined)

\* The state of the cached copy against the source-of-record timestamp
CacheState(maDMP, rdsDate) ==
  IF ~IsDefined(maDMP) THEN "missing"
  ELSE IF ModifiedOf(maDMP) = rdsDate THEN "fresh"
  ELSE "stale"

----------------------------------------------------------------------------
(* Callers *)

OwnerEmail == "owner@example.com"

\* req.auth: no token, or the token of a researcher who collaborates on the plan
Tokens ==
  {Undefined,
   Some([role |-> "RESEARCHER", email |-> OwnerEmail, affiliationId |-> Some("affC")])}

\* rows of plans joined with projectCollaborators, by collaborator email
PlansOfCollaborator(email) ==
  IF email = OwnerEmail /\ IsDefined(rds)
    THEN <<[id |-> Get(rds).id, dmpId |-> Get(rds).dmpId, accessLevel |-> "OWN"]>>
    ELSE <<>>

----------------------------------------------------------------------------
(* The narrative request handler *)

\* A request: the handler's local variables, the calls it has made so far
\* (srcReads .. writeOk, cacheWas) and its response.
IdleRequest ==
  [pc |-> "idle", token |-> Undefined, version |-> Undefined,
   plan |-> Undefined, usersPlans |-> <<>>,
   cached |-> Undefined, maDMP |-> Undefined, wasJustOutdated |-> FALSE,
   cacheWas |-> "unread", srcReads |-> 0, cacheReads |-> 0, rebuilds |-> 0,
   writeOp |-> "none", writeOk |-> FALSE,
   status |-> 0, text |-> "", doc |-> Undefined, sendAttempts |-> 0, threw |-> ""]

\* res.status(status).send(...); return -- the handler's locals go out of scope
Send(rec, status, text, doc) ==
  [rec EXCEPT !.pc = "done", !.status = status, !.text = text, !.doc = doc,
              !.sendAttempts = 1,
              !.plan = Undefined, !.usersPlans = <<>>, !.cached = Undefined,
              !.maDMP = Undefined, !.wasJustOutdated = FALSE]

\* the handler's catch block
Catch(rec, where) ==
  [Send(rec, 500, "Document generation failed", Undefined) EXCEPT !.threw = where]

\* a request arrives
Receive(r) ==
  /\ reqs[r].pc = "idle"
  /\ \E token \in Tokens :
       reqs' = [reqs EXCEPT ![r] = [@ EXCEPT !.pc = "loadPlan", !.token = token]]
  /\ UNCHANGED <<rds, dynamo>>
  /\ UNCHANGED pureVars

\* a request arrives with the version query parameter: prepareOptions keeps
\* params.version, the timestamp of the version asked for
ReceiveWithVersion(r) ==
  /\ reqs[r].pc = "idle"
  /\ \E token \in Tokens, version \in MySQLTimes :
       reqs' = [reqs EXCEPT ![r] = [@ EXCEPT !.pc = "loadPlan", !.token = token,
                                             !.version = Some(version)]]
  /\ UNCHANGED <<rds, dynamo>>
  /\ UNCHANGED pureVars

\* plans.results[0] of SELECT id, dmpId, modified, visibility FROM plans
PlanOf(row) ==
  IF IsDefined(row)
    THEN Some([id |-> Get(row).id, dmpId |-> Get(row).dmpId,
               modified |-> Get(row).modified, visibility |-> Get(row).visibility])
    ELSE Undefined

\* loadPlan without the early return when no plan is found
loadPlan_NoEarlyReturn(r) ==
  /\ reqs[r].pc = "loadPlan"
  /\ LET rec == [reqs[r] EXCEPT !.srcReads = @ + 1] IN
     \/ reqs' = [reqs EXCEPT ![r] = Catch(rec, "loadPlan")]
     \/ reqs' = [reqs EXCEPT ![r] =
          [rec EXCEPT !.pc = "loadPlansForUser", !.plan = PlanOf(rds)]]
  /\ UNCHANGED <<rds, dynamo>>
  /\ UNCHANGED pureVars

\* const plan = await loadPlan(...); if (!plan) 404
loadPlan(r) ==
  /\ reqs[r].pc = "loadPlan"
  /\ LET rec == [reqs[r] EXCEPT !.srcReads = @ + 1] IN
     \/ reqs' = [reqs EXCEPT ![r] = Catch(rec, "loadPlan")]
     \/ /\ ~IsDefined(PlanOf(rds))
        /\ reqs' = [reqs EXCEPT ![r] = Send(rec, 404, "Plan not found", Undefined)]
     \/ /\ IsDefined(PlanOf(rds))
        /\ reqs' = [reqs EXCEPT ![r] =
             [rec EXCEPT !.pc = "loadPlansForUser", !.plan = PlanOf(rds)]]
  /\ UNCHANGED <<rds, dynamo>>
  /\ UNCHANGED pureVars

\* const usersPlans = await loadPlansForUser(...)
loadPlansForUser(r) ==
  /\ reqs[r].pc = "loadPlansForUser"
  /\ LET rec == [reqs[r] EXCEPT !.srcReads = @ + 1]
         email == IF IsDefined(rec.token) THEN Get(rec.token).email ELSE "" IN
     \/ reqs' = [reqs EXCEPT ![r] = Catch(rec, "loadPlansForUser")]
     \/ reqs' = [reqs EXCEPT ![r] =
          [rec EXCEPT !.pc = "loadMaDMPFromDynamo",
                      !.usersPlans = PlansOfCollaborator(email)]]
  /\ UNCHANGED <<rds, dynamo>>
  /\ UNCHANGED pureVars

\* the freshness test that regenerates on every request
NeedsRegeneration_Always(maDMP, rdsDate) == TRUE

\* if (!maDMP || rdsDate !== maDMP?.dmp?.modified)
NeedsRegeneration(maDMP, rdsDate) ==
  ~IsDefined(maDMP) \/ rdsDate # ModifiedOf(maDMP)

\* the wasJustOutdated argument: rdsDate !== maDMP?.dmp?.modified
WasJustOutdatedArg(maDMP, rdsDate) ==
  rdsDate # ModifiedOf(maDMP)

\* loadMaDMPFromDynamo reading the record a second time after the first read
loadMaDMPFromDynamo_ReadsTwice(r) ==
  /\ reqs[r].pc = "loadMaDMPFromDynamo"
  /\ LET rec == [reqs[r] EXCEPT !.cacheReads = @ + 2]
         rdsDate == RdsDate(rec.plan) IN
     \/ reqs' = [reqs EXCEPT ![r] = Catch(rec, "loadMaDMPFromDynamo")]
     \/ reqs' = [reqs EXCEPT ![r] =
          [rec EXCEPT !.cached = dynamo, !.maDMP = dynamo,
                      !.cacheWas = CacheState(dynamo, rdsDate),
                      !.wasJustOutdated = WasJustOutdatedArg(dynamo, rdsDate),
                      !.pc = IF NeedsRegeneration(dynamo, rdsDate)
                               THEN "handleMissingMaDMP" ELSE "respond"]]
  /\ UNCHANGED <<rds, dynamo>>
  /\ UNCHANGED pureVars

\* let maDMP = await loadMaDMPFromDynamo(...), then the freshness decision
loadMaDMPFromDynamo(r) ==
  /\ reqs[r].pc = "loadMaDMPFromDynamo"
  /\ LET rec == [reqs[r] EXCEPT !.cacheReads = @ + 1]
         rdsDate == RdsDate(rec.plan) IN
     \/ reqs' = [reqs EXCEPT ![r] = Catch(rec, "loadMaDMPFromDynamo")]
     \/ reqs' = [reqs EXCEPT ![r] =
          [rec EXCEPT !.cached = dynamo, !.maDMP = dynamo,
                      !.cacheWas = CacheState(dynamo, rdsDate),
                      !.wasJustOutdated = WasJustOutdatedArg(dynamo, rdsDate),
                      !.pc = IF NeedsRegeneration(dynamo, rdsDate)
                               THEN "handleMissingMaDMP" ELSE "respond"]]
  /\ UNCHANGED <<rds, dynamo>>
  /\ UNCHANGED pureVars

\* handleMissingMaDMP without the (maDMP && maDMP.dmp) guard before persisting
handleMissingMaDMP_PersistsAnyway(r) ==
  /\ reqs[r].pc = "handleMissingMaDMP"
  /\ LET rec == [reqs[r] EXCEPT !.srcReads = @ + 1, !.rebuilds = @ + 1] IN
     \/ reqs' = [reqs EXCEPT ![r] = Catch(rec, "planToDMPCommonStandard")]
     \/ /\ IsDefined(rds)
        /\ \E built \in planToDMPCommonStandard(Get(rds)) :
             reqs' = [reqs EXCEPT ![r] =
               [rec EXCEPT !.maDMP = built, !.pc = "persistMaDMPRecord"]]
  /\ UNCHANGED <<rds, dynamo>>
  /\ UNCHANGED pureVars

\* handleMissingMaDMP up to the result of planToDMPCommonStandard
handleMissingMaDMP(r) ==
  /\ reqs[r].pc = "handleMissingMaDMP"
  /\ LET rec == [reqs[r] EXCEPT !.srcReads = @ + 1, !.rebuilds = @ + 1] IN
     \/ reqs' = [reqs EXCEPT ![r] = Catch(rec, "planToDMPCommonStandard")]
     \/ /\ IsDefined(rds)
        /\ \E built \in planToDMPCommonStandard(Get(rds)) :
             reqs' = [reqs EXCEPT ![r] =
               [rec EXCEPT !.maDMP = built,
                           !.pc = IF HasDmp(built) THEN "persistMaDMPRecord"
                                                   ELSE "respond"]]
  /\ UNCHANGED <<rds, dynamo>>
  /\ UNCHANGED pureVars

\* if (wasJustOutdated) updateDMP(...) else createDMP(...)
WriteOperation(wasJustOutdated) ==
  IF wasJustOutdated THEN "updateDMP" ELSE "createDMP"

\* persistMaDMPRecord stamping the document with the timestamp read by loadPlan
persistMaDMPRecord_StampsRdsDate(r) ==
  /\ reqs[r].pc = "persistMaDMPRecord"
  /\ LET rec == [reqs[r] EXCEPT !.writeOp = WriteOperation(reqs[r].wasJustOutdated)] IN
     \/ /\ reqs' = [reqs EXCEPT ![r] = Catch(rec, rec.writeOp)]
        /\ UNCHANGED dynamo
     \/ /\ reqs' = [reqs EXCEPT ![r] = [rec EXCEPT !.writeOk = TRUE, !.pc = "respond"]]
        /\ dynamo' = Some([dmp |-> Some([Get(Get(rec.maDMP).dmp) EXCEPT
                                          !.modified = Get(RdsDate(rec.plan))])])
  /\ UNCHANGED rds
  /\ UNCHANGED pureVars

\* persistMaDMPRecord that returns without having written the record
persistMaDMPRecord_DropsWrite(r) ==
  /\ reqs[r].pc = "persistMaDMPRecord"
  /\ LET rec == [reqs[r] EXCEPT !.writeOp = WriteOperation(reqs[r].wasJustOutdated)] IN
     \/ reqs' = [reqs EXCEPT ![r] = Catch(rec, rec.writeOp)]
     \/ reqs' = [reqs EXCEPT ![r] = [rec EXCEPT !.writeOk = TRUE, !.pc = "respond"]]
  /\ UNCHANGED <<rds, dynamo>>
  /\ UNCHANGED pureVars

\* persistMaDMPRecord: the store accepts the write, or rejects it and the
\* call throws
persistMaDMPRecord(r) ==
  /\ reqs[r].pc = "persistMaDMPRecord"
  /\ LET rec == [reqs[r] EXCEPT !.writeOp = WriteOperation(reqs[r].wasJustOutdated)] IN
     \/ /\ reqs' = [reqs EXCEPT ![r] = Catch(rec, rec.writeOp)]
        /\ UNCHANGED dynamo
     \/ /\ reqs' = [reqs EXCEPT ![r] = [rec EXCEPT !.writeOk = TRUE, !.pc = "respond"]]
        /\ dynamo' = rec.maDMP
  /\ UNCHANGED rds
  /\ UNCHANGED pureVars

\* the outcomes of rendering the requested format
RenderOutcomes == {"rendered", "unsupported", "throws"}

\* from the bail-out check to the response
respond(r) ==
  /\ reqs[r].pc = "respond"
  /\ LET rec == reqs[r] IN
     IF ~HasDmp(rec.maDMP)
       THEN reqs' = [reqs EXCEPT ![r] =
              Send(rec, 500, "Unable to generate a narrative at this time", Undefined)]
     ELSE IF hasPermissionThrows(rec.maDMP, rec.usersPlans, rec.token)
       THEN reqs' = [reqs EXCEPT ![r] = Catch(rec, "hasPermissionToDownloadNarrative")]
     ELSE IF ~hasPermissionToDownloadNarrative(rec.maDMP, rec.usersPlans, rec.token)
       THEN reqs' = [reqs EXCEPT ![r] = Send(rec, 404, "DMP not found", Undefined)]
     ELSE \E outcome \in RenderOutcomes :
       reqs' = [reqs EXCEPT ![r] =
         CASE outcome = "rendered" ->
                Send(rec, 200, "narrative", Get(rec.maDMP).dmp)
           [] outcome = "unsupported" ->
                \* 406 is sent, then the two further sends fail: headers are sent
                [Send(rec, 406, "Not Acceptable", Undefined) EXCEPT !.sendAttempts = 3]
           [] outcome = "throws" -> Catch(rec, "render")]
  /\ UNCHANGED <<rds, dynamo>>
  /\ UNCHANGED pureVars

\* the plan is edited in the source of record: plans.modified advances
UpdatePlan ==
  /\ IsDefined(rds)
  /\ \E t \in MySQLTimes :
       /\ t > Get(rds).modified
       /\ rds' = Some([Get(rds) EXCEPT !.modified = t])
  /\ UNCHANGED <<dynamo, reqs>>
  /\ UNCHANGED pureVars

----------------------------------------------------------------------------
(* Specification of the server *)

\* The DynamoDB copy, when there is one, was built from the plan's rows at
\* some earlier time
InitServer ==
  /\ rds \in {Undefined} \cup {Some(row) : row \in PlanRows}
  /\ dynamo \in {Undefined} \cup
       {BuildMaDMP(row) : row \in {w \in PlanRows :
          /\ w.complete
          /\ IsDefined(rds) =>
               w.modified <= Get(rds).modified /\ w.visibility = Get(rds).visibility}}
  /\ reqs = [r \in Requests |-> IdleRequest]

PermUnused == [state |-> "unused"]
PdfUnused == [state |-> "unused"]
CallUnused == [state |-> "unused"]

Init ==
  /\ InitServer
  /\ permCall = PermUnused
  /\ pdf = PdfUnused
  /\ call = CallUnused

Step(r) ==
  \/ Receive(r)
  \/ loadPlan(r)
  \/ loadPlansForUser(r)
  \/ loadMaDMPFromDynamo(r)
  \/ handleMissingMaDMP(r)
  \/ persistMaDMPRecord(r)
  \/ respond(r)

Next ==
  \/ \E r \in Requests : Step(r)
  \/ UpdatePlan

Spec == Init /\ [][Next]_vars

\* Concurrent requests while the source of record is left alone
NextStable == \E r \in Requests : Step(r)

SpecStable == Init /\ [][NextStable]_vars

\* Requests made one after the other (each call starts when the previous one
\* has been answered) while the source of record is left alone
NextSeq ==
  \E r \in Requests :
    \/ /\ \A q \in Requests : reqs[q].pc = (IF q < r THEN "done" ELSE "idle")
       /\ Receive(r)
    \/ loadPlan(r)
    \/ loadPlansForUser(r)
    \/ loadMaDMPFromDynamo(r)
    \/ handleMissingMaDMP(r)
    \/ persistMaDMPRecord(r)
    \/ respond(r)

SpecSeq == Init /\ [][NextSeq]_vars

\* requests with and without the version query parameter
NextVersion ==
  \/ \E r \in Requests : ReceiveWithVersion(r) \/ Step(r)
  \/ UpdatePlan

SpecVersion == Init /\ [][NextVersion]_vars

----------------------------------------------------------------------------
(* Specification of the permission gate on its own *)

Affiliations == {Undefined, Some("affA"), Some("affB")}

\* the affiliation lists of a contact or contributor
AffiliationLists ==
  {Undefined, Some(<<>>), Some(<<Undefined>>), Some(<<Some("affA")>>),
   Some(<<Some("affB"), Some("affA")>>)}

People == {Undefined} \cup {Some([affiliation |-> a]) : a \in AffiliationLists}

ContributorLists ==
  {Undefined, Some(<<>>)} \cup {Some(<<c>>) : c \in People}
    \cup {Some(<<Some([affiliation |-> Some(<<Some("affB")>>)]), c>>) : c \in People}

PermTokens ==
  {Undefined} \cup
  {Some([role |-> ro, email |-> OwnerEmail, affiliationId |-> a]) :
     ro \in {"SUPERADMIN", "ADMIN", "RESEARCHER"}, a \in Affiliations}

UserDMPLists ==
  {<<>>, <<[id |-> 123, dmpId |-> DmpId, accessLevel |-> "OWN"]>>,
   <<[id |-> 7, dmpId |-> "dmpB", accessLevel |-> "OWN"]>>,
   <<[id |-> 7, dmpId |-> "dmpB", accessLevel |-> "OWN"],
     [id |-> 123, dmpId |-> DmpId, accessLevel |-> "EDIT"]>>}

PermData ==
  {Some([dmp |-> Some([dmp_id |-> DmpId, modified |-> [rfc3339 |-> 1],
                       privacy |-> p, contact |-> c, contributor |-> cs])]) :
     p \in Visibilities, c \in People, cs \in ContributorLists}

InitPerm ==
  /\ rds = Undefined
  /\ dynamo = Undefined
  /\ reqs = [r \in Requests |-> IdleRequest]
  /\ permCall \in [state : {"called"}, data : PermData, userDMPs : UserDMPLists,
                   token : PermTokens, threw : {FALSE}, result : {FALSE}]
  /\ pdf = PdfUnused
  /\ call = CallUnused

\* the call returns or throws
CallHasPermission ==
  /\ permCall.state = "called"
  /\ permCall' =
       IF hasPermissionThrows(permCall.data, permCall.userDMPs, permCall.token)
         THEN [permCall EXCEPT !.state = "returned", !.threw = TRUE]
         ELSE [permCall EXCEPT !.state = "returned",
                 !.result = hasPermissionToDownloadNarrative(
                              permCall.data, permCall.userDMPs, permCall.token)]
  /\ UNCHANGED <<serverVars, pdf, call>>

NextPerm == CallHasPermission

SpecPerm == InitPerm /\ [][NextPerm]_vars

----------------------------------------------------------------------------
(* renderPDF (pdf.ts): a headless browser per execution *)

\* number of executions of renderPDF that may be in progress together
NumPdf == 2

PdfRuns == 1..NumPdf

\* an execution before puppeteer.launch: no browser, nothing thrown
PdfStart ==
  [pc |-> "launch", browser |-> "none", closeCalls |-> 0,
   caught |-> "none", thrown |-> "none", returned |-> FALSE]

\* await puppeteer.launch(...): a browser process, or the launch rejects and
\* the error leaves renderPDF (the call is outside the try block)
launch(i) ==
  /\ pdf[i].pc = "launch"
  /\ \/ pdf' = [pdf EXCEPT ![i].pc = "newPage", ![i].browser = "open"]
     \/ pdf' = [pdf EXCEPT ![i].pc = "done", ![i].thrown = "launch"]
  /\ UNCHANGED <<serverVars, permCall, call>>

\* one awaited step inside the try block: it resolves and control moves to
\* `next`, or it rejects and control moves to the catch block with the error
TryStep(i, step, next) ==
  /\ pdf[i].pc = step
  /\ \/ pdf' = [pdf EXCEPT ![i].pc = next]
     \/ pdf' = [pdf EXCEPT ![i].pc = "catch", ![i].caught = step]
  /\ UNCHANGED <<serverVars, permCall, call>>

newPage(i) == TryStep(i, "newPage", "setContent")

setContent(i) == TryStep(i, "setContent", "pdf")

pagePdf(i) == TryStep(i, "pdf", "close")

\* await browser.close() after the capture, then return Buffer.from(pdf);
\* a rejected close is caught by the same try block (the browser process is
\* then in the state the failed close left it in)
closeAfterCapture(i) ==
  /\ pdf[i].pc = "close"
  /\ \/ pdf' = [pdf EXCEPT ![i].pc = "done", ![i].browser = "closed",
                           ![i].closeCalls = @ + 1, ![i].returned = TRUE]
     \/ \E b \in {"open", "closed"} :
          pdf' = [pdf EXCEPT ![i].pc = "catch", ![i].browser = b,
                             ![i].closeCalls = @ + 1, ![i].caught = "close"]
  /\ UNCHANGED <<serverVars, permCall, call>>

\* the catch block without its browser.close()
catchBlock_NoClose(i) ==
  /\ pdf[i].pc = "catch"
  /\ pdf' = [pdf EXCEPT ![i].pc = "done", ![i].thrown = pdf[i].caught]
  /\ UNCHANGED <<serverVars, permCall, call>>

\* catch (e) { if (browser) { await browser.close(); } throw e; }
\* a close that rejects here replaces e as the error leaving renderPDF
catchBlock(i) ==
  /\ pdf[i].pc = "catch"
  /\ \/ pdf' = [pdf EXCEPT ![i].pc = "done", ![i].browser = "closed",
                           ![i].closeCalls = @ + 1, ![i].thrown = pdf[i].caught]
     \/ \E b \in {pdf[i].browser, "closed"} :
          pdf' = [pdf EXCEPT ![i].pc = "done", ![i].browser = b,
                             ![i].closeCalls = @ + 1, ![i].thrown = "closeInCatch"]
  /\ UNCHANGED <<serverVars, permCall, call>>

InitPdf ==
  /\ rds = Undefined
  /\ dynamo = Undefined
  /\ reqs = [r \in Requests |-> IdleRequest]
  /\ permCall = PermUnused
  /\ pdf = [i \in PdfRuns |-> PdfStart]
  /\ call = CallUnused

NextPdf ==
  \E i \in PdfRuns :
    \/ launch(i)
    \/ newPage(i)
    \/ setContent(i)
    \/ pagePdf(i)
    \/ closeAfterCapture(i)
    \/ catchBlock(i)

SpecPdf == InitPdf /\ [][NextPdf]_vars

----------------------------------------------------------------------------
(* JavaScript values of answer payloads, and HTML as a sequence of tokens *)

JsStr(x) == Some([str |-> x])
JsNum(n) == Some([num |-> n])
JsBool(b) == Some([bool |-> b])
JsArr(xs) == Some([arr |-> xs])
JsObj(o) == Some([obj |-> o])

IsNullish(v) == v = Undefined \/ v = JsNull
IsKind(v, kind) == ~IsNullish(v) /\ DOMAIN Get(v) = {kind}
IsStr(v) == IsKind(v, "str")
IsNum(v) == IsKind(v, "num")
IsBool(v) == IsKind(v, "bool")
IsArr(v) == IsKind(v, "arr")
IsObj(v) == IsKind(v, "obj")

\* v.name: undefined unless v is an object that has the property
\* (reading a property of undefined or null throws: see PropThrows)
Prop(v, name) ==
  IF IsObj(v) /\ name \in DOMAIN Get(v).obj THEN Get(v).obj[name] ELSE Undefined

PropThrows(v) == IsNullish(v)

\* the numbers that occur in answers, as printed by `${n}` and by
\* n.toLocaleString('en-US')
NumberToString(n) == CASE n = 0 -> "0" [] n = 5 -> "5" [] OTHER -> "1000"
toLocaleString(n) == CASE n = 0 -> "0" [] n = 5 -> "5" [] OTHER -> "1,000"

\* the truthiness of a value: "", 0, false, null and undefined are falsy
Truthy(v) ==
  CASE IsNullish(v) -> FALSE
    [] IsStr(v) -> Get(v).str # ""
    [] IsNum(v) -> Get(v).num # 0
    [] IsBool(v) -> Get(v).bool
    [] OTHER -> TRUE

\* String.prototype.trim on the strings that occur in answers
Trim(x) == IF x \in {" ", "  "} THEN "" ELSE x

\* Array.prototype.join / toString of an array of strings
RECURSIVE Join(_, _)
Join(xs, sep) ==
  IF xs = <<>> THEN ""
  ELSE IF Len(xs) = 1 THEN xs[1]
  ELSE xs[1] \o sep \o Join(Tail(xs), sep)

\* `${v}` and v.toString() of a value that is neither undefined nor null
toString(v) ==
  CASE IsStr(v) -> Get(v).str
    [] IsNum(v) -> NumberToString(Get(v).num)
    [] IsBool(v) -> IF Get(v).bool THEN "true" ELSE "false"
    [] IsArr(v) -> Join(Get(v).arr, ",")
    [] OTHER -> "[object Object]"

\* `${v}` in a template literal
Interpolate(v) ==
  CASE v = Undefined -> "undefined" [] v = JsNull -> "null" [] OTHER -> toString(v)

\* tokens of an HTML document: tags, text and character references
Open(name) == [open |-> name]
Close(name) == [close |-> name]
Text(x) == [text |-> x]
Entity(name) == [entity |-> name]
Element(name, content) == <<Open(name)>> \o content \o <<Close(name)>>
P(x) == Element("p", <<Text(x)>>)

----------------------------------------------------------------------------
(* Answers and their rendering (answerToHTML, questionAnswerForDisplay) *)

\* the answer types that have a schema in AnswerSchemaMap
KnownTypes ==
  {"boolean", "currency", "number", "dateRange", "numberRange", "checkBoxes",
   "multiselectBox", "affiliationSearch", "text", "textArea", "url"}

\* values of json.type: absent, null, a known tag or an unknown one
TypeTags == {Undefined, JsNull, JsStr("bogus")} \cup {JsStr(t) : t \in KnownTypes}

\* values of json.answer
Payloads ==
  {Undefined, JsNull, JsStr(""), JsStr(" "), JsStr("abc"), JsStr("a &lt; b"), JsStr("<b>x</b>"),
   JsNum(0), JsNum(5), JsNum(1000), JsBool(TRUE), JsBool(FALSE),
   JsArr(<<>>), JsArr(<<"a", "b">>)}
  \cup {JsObj([start |-> a, end |-> b]) :
          a, b \in {Undefined, JsStr("2024-01-02")}}
  \cup {JsObj([start |-> a, end |-> b]) : a, b \in {Undefined, JsNum(5)}}
  \cup {JsObj([affiliationId |-> a, affiliationName |-> b]) :
          a \in {Undefined, JsStr("https://ror.org/01")}, b \in {Undefined, JsStr("UC")}}

\* values of answer.json
AnswerJsons ==
  {Undefined} \cup {Some([type |-> t, answer |-> a]) : t \in TypeTags, a \in Payloads}

TypeOf(json) == IF IsDefined(json) THEN Get(json).type ELSE Undefined
AnswerOf(json) == IF IsDefined(json) THEN Get(json).answer ELSE Undefined
TypeIs(json, t) == TypeOf(json) = JsStr(t)

\* a property of an object payload has the kind the schema declares; an
\* absent property is accepted when the schema fills in a default
FieldConforms(v, name, kind, defaults) ==
  IF Prop(v, name) = Undefined THEN defaults ELSE IsKind(Prop(v, name), kind)

\* AnswerSchemaMap[type].safeParse(json).success for a known type; `defaults`
\* tells whether the schema of @dmptool/types fills in an absent value
safeParse(json, defaults) ==
  LET t == Get(TypeOf(json)).str
      a == AnswerOf(json)
  IN  IF a = Undefined THEN defaults
      ELSE CASE t = "boolean" -> IsBool(a)
             [] t \in {"currency", "number"} -> IsNum(a)
             [] t \in {"checkBoxes", "multiselectBox"} -> IsArr(a)
             [] t = "dateRange" ->
                  /\ IsObj(a) /\ DOMAIN Get(a).obj = {"start", "end"}
                  /\ FieldConforms(a, "start", "str", defaults)
                  /\ FieldConforms(a, "end", "str", defaults)
             [] t = "numberRange" ->
                  /\ IsObj(a) /\ DOMAIN Get(a).obj = {"start", "end"}
                  /\ FieldConforms(a, "start", "num", defaults)
                  /\ FieldConforms(a, "end", "num", defaults)
             [] t = "affiliationSearch" ->
                  /\ IsObj(a)
                  /\ DOMAIN Get(a).obj = {"affiliationId", "affiliationName"}
                  /\ FieldConforms(a, "affiliationId", "str", defaults)
                  /\ FieldConforms(a, "affiliationName", "str", defaults)
             [] OTHER -> IsStr(a)

\* formatDate (helper.ts): a parsable date in the en-US long form, anything
\* else (undefined included) as 'None specified'
formatDate(date, includeDay) ==
  CASE date = JsStr("2024-01-02") ->
         (IF includeDay THEN "January 2, 2024" ELSE "January 2024")
    [] date = JsStr("2023-12-15") ->
         (IF includeDay THEN "December 15, 2023" ELSE "December 2023")
    [] date = JsStr("2025-04-10") ->
         (IF includeDay THEN "April 10, 2025" ELSE "April 2025")
    [] OTHER -> "None specified"

\* the tokens of a string that is written into the page as markup
ParseHTML(x) ==
  IF x = "a &lt; b" THEN <<Text("a "), Entity("lt"), Text(" b")>>
  ELSE IF x = "<b>x</b>" THEN Element("b", <<Text("x")>>)
  ELSE IF x = "" THEN <<>> ELSE <<Text(x)>>

NotYetAnswered == P("Not yet answered.")
UnknownTypeMarker == P("Unable to render this answer (unknown type).")
InvalidAnswerMarker == P("Unable to render this answer (invalid answer).")

RECURSIVE ListItems(_)
ListItems(xs) ==
  IF xs = <<>> THEN <<>>
  ELSE Element("li", <<Text(xs[1])>>) \o ListItems(Tail(xs))

Link(href, content) == <<[open |-> "a", href |-> href]>> \o content \o <<Close("a")>>

\* the switch of answerToHTML on a schema-valid answer
answerSwitch(json) ==
  LET t == Get(TypeOf(json)).str
      a == AnswerOf(json)
  IN  CASE t = "textArea" -> ParseHTML(Get(a).str)
        [] t \in {"checkBoxes", "multiselectBox"} ->
             IF IsArr(a) /\ Len(Get(a).arr) > 0
               THEN Element("ul", ListItems(Get(a).arr))
               ELSE NotYetAnswered
        [] t = "dateRange" ->
             Element("p", <<Text(formatDate(Prop(a, "start"), TRUE)), Text(" to "),
                            Text(formatDate(Prop(a, "end"), TRUE))>>)
        [] t = "numberRange" ->
             Element("p", <<Text(Interpolate(Prop(a, "start"))), Text(" to "),
                            Text(Interpolate(Prop(a, "end")))>>)
        [] t = "currency" -> Element("p", <<Text("$"), Text(toLocaleString(Get(a).num))>>)
        [] t = "number" -> P(toLocaleString(Get(a).num))
        [] t = "boolean" -> IF Truthy(a) THEN P("Yes") ELSE P("No")
        [] t = "affiliationSearch" ->
             IF Truthy(Prop(a, "affiliationId"))
               THEN Element("p",
                      Link(Interpolate(Prop(a, "affiliationId")),
                           <<Text(IF IsNullish(Prop(a, "affiliationName"))
                                    THEN Interpolate(Prop(a, "affiliationId"))
                                    ELSE Interpolate(Prop(a, "affiliationName")))>>))
               ELSE P(Interpolate(Prop(a, "affiliationName")))
        [] t = "url" ->
             Element("p", Link(Interpolate(a), ParseHTML(Interpolate(a))))
        [] OTHER -> Element("p", ParseHTML(Interpolate(a)))

answerToHTML(json, defaults) ==
  IF ~IsDefined(json) THEN NotYetAnswered
  ELSE IF ~(IsStr(TypeOf(json)) /\ Get(TypeOf(json)).str \in KnownTypes)
    THEN UnknownTypeMarker
  ELSE IF ~safeParse(json, defaults) THEN InvalidAnswerMarker
  ELSE IF Truthy(AnswerOf(json)) \/ TypeIs(json, "boolean")
    THEN answerSwitch(json)
  ELSE NotYetAnswered

\* values of the `answer` argument of questionAnswerForDisplay
Answers == {Undefined} \cup {Some([id |-> 1, json |-> j]) : j \in AnswerJsons}

JsonOf(answer) == IF IsDefined(answer) THEN Get(answer).json ELSE Undefined

\* the determination reads answer.json.answer.start of a range answer
\* without optional chaining: a TypeError when the payload is absent
answeredThrows(answer) ==
  /\ TypeOf(JsonOf(answer)) \in {JsStr("dateRange"), JsStr("numberRange")}
  /\ PropThrows(AnswerOf(JsonOf(answer)))

\* the local `answered` of questionAnswerForDisplay
answered(answer) ==
  LET json == JsonOf(answer)
      a == AnswerOf(json)
      t == TypeOf(json)
  IN  IF IsNullish(t) THEN FALSE
      ELSE CASE t = JsStr("boolean") -> TRUE
             [] t \in {JsStr("currency"), JsStr("number")} -> a # Undefined
             [] t \in {JsStr("dateRange"), JsStr("numberRange")} ->
                  Prop(a, "start") # Undefined \/ Prop(a, "end") # Undefined
             [] t \in {JsStr("checkBoxes"), JsStr("multiselectBox")} ->
                  IsArr(a) /\ Len(Get(a).arr) > 0
             [] t = JsStr("affiliationSearch") ->
                  \/ Prop(a, "affiliationId") # Undefined
                  \/ Prop(a, "affiliationName") # Undefined
             [] OTHER -> ~IsNullish(a) /\ Trim(toString(a)) # ""

QuestionDiv == [open |-> "div", class |-> "question"]
NotAnswered == P("Not answered")
QuestionText(question) == Element("strong", ParseHTML(question))

\* the helper with the early return for unanswered questions removed
questionAnswerForDisplay_NoOmission(question, answer, includeQs, includeUnanswered, defaults) ==
  <<QuestionDiv>>
    \o (IF includeQs THEN QuestionText(question) ELSE <<>>)
    \o (IF answered(answer) THEN answerToHTML(JsonOf(answer), defaults)
        ELSE IF includeUnanswered THEN NotAnswered ELSE <<>>)
    \o <<Close("div")>>

\* the Handlebars helper questionAnswerForDisplay, once `answered` is known
questionAnswerForDisplay(question, answer, includeQs, includeUnanswered, defaults) ==
  IF ~answered(answer) /\ ~includeUnanswered THEN <<>>
  ELSE <<QuestionDiv>>
         \o (IF includeQs THEN QuestionText(question) ELSE <<>>)
         \o (IF answered(answer) THEN answerToHTML(JsonOf(answer), defaults)
             ELSE IF includeUnanswered THEN NotAnswered ELSE <<>>)
         \o <<Close("div")>>

QuestionTexts == {"Q1"}

InitPure ==
  /\ rds = Undefined
  /\ dynamo = Undefined
  /\ reqs = [r \in Requests |-> IdleRequest]
  /\ permCall = PermUnused
  /\ pdf = PdfUnused

InitAnswer ==
  /\ InitPure
  /\ call \in [fn : {"questionAnswerForDisplay"}, state : {"called"},
               question : QuestionTexts, answer : Answers,
               includeQs : BOOLEAN, includeUnanswered : BOOLEAN,
               defaults : BOOLEAN]

\* the helper returns its markup or throws
CallQuestionAnswerForDisplay ==
  /\ call.state = "called"
  /\ call.fn = "questionAnswerForDisplay"
  /\ call' =
       IF answeredThrows(call.answer)
         THEN [fn |-> call.fn, state |-> "threw", args |-> call]
         ELSE [fn |-> call.fn, state |-> "returned", args |-> call,
               answered |-> answered(call.answer),
               result |-> questionAnswerForDisplay(
                            call.question, call.answer, call.includeQs,
                            call.includeUnanswered, call.defaults)]
  /\ UNCHANGED <<serverVars, permCall, pdf>>

NextAnswer == CallQuestionAnswerForDisplay

SpecAnswer == InitAnswer /\ [][NextAnswer]_vars

----------------------------------------------------------------------------
(* renderCSV (csv.ts) *)

\* tAnswer.replace(/<[^>]*>/g, "") on the strings that occur in answers
StripTags(x) == IF x = "<b>x</b>" THEN "x" ELSE x

\* answerToCSV reads properties of the payload without checking its kind
answerToCSVThrows(json) ==
  LET a == AnswerOf(json)
  IN  \/ TypeIs(json, "textArea") /\ ~IsStr(a)
      \/ TypeOf(json) \in {JsStr("dateRange"), JsStr("numberRange")} /\ PropThrows(a)
      \/ TypeIs(json, "affiliationSearch") /\ PropThrows(a)

\* the cell of the Answer column: a string, number or boolean
answerToCSV(json) ==
  LET a == AnswerOf(json)
      t == TypeOf(json)
      answer ==
        CASE t = JsStr("textArea") -> JsStr(StripTags(Get(a).str))
          [] t = JsStr("dateRange") ->
               JsStr(formatDate(Prop(a, "start"), TRUE) \o " to "
                       \o formatDate(Prop(a, "end"), TRUE))
          [] t = JsStr("numberRange") ->
               JsStr(Interpolate(Prop(a, "start")) \o " to "
                       \o Interpolate(Prop(a, "end")))
          [] t \in {JsStr("checkBoxes"), JsStr("multiselectBox")} ->
               IF IsArr(a) /\ Len(Get(a).arr) > 0
                 THEN JsStr(Join(Get(a).arr, "; ")) ELSE Undefined
          [] t = JsStr("affiliationSearch") ->
               IF Truthy(Prop(a, "affiliationId"))
                 THEN JsStr(Interpolate(Prop(a, "affiliationName")) \o " ("
                              \o Interpolate(Prop(a, "affiliationId")) \o ")")
                 ELSE Prop(a, "affiliationName")
          [] OTHER -> a
  IN  IF IsNullish(answer) THEN JsStr("") ELSE answer

\* the narrative of the plan as renderCSV reads it
CsvQuestion(json) == [question_text |-> "Q1", answer_json |-> json]
CsvSection(title, questions) == [section_title |-> title, questions |-> questions]
CsvPlan(sections) == [dmproadmap_narrative |-> Some([sections |-> sections])]

CsvPlans ==
  {[dmproadmap_narrative |-> Undefined], CsvPlan(Undefined), CsvPlan(Some(<<>>)),
   CsvPlan(Some(<<CsvSection("S1", Undefined)>>)),
   CsvPlan(Some(<<CsvSection("S1", Some(<<>>))>>))}
  \cup {CsvPlan(Some(<<CsvSection("S1", Some(<<CsvQuestion(j)>>))>>)) : j \in AnswerJsons}
  \cup {CsvPlan(Some(<<CsvSection("S1", Some(<<CsvQuestion(j)>>)),
                       CsvSection("S2", Some(<<CsvQuestion(
                         Some([type |-> JsStr("text"), answer |-> JsStr("abc")]))>>))>>)) :
          j \in AnswerJsons}

SectionsOf(data) ==
  IF IsDefined(data.dmproadmap_narrative)
    THEN Get(data.dmproadmap_narrative).sections ELSE Undefined

RECURSIVE QuestionRows(_, _, _)
QuestionRows(display, section, questions) ==
  IF questions = <<>> THEN <<>>
  ELSE << (IF display.includeSectionHeadings THEN <<JsStr(section.section_title)>> ELSE <<>>)
            \o (IF display.includeQuestionText
                  THEN <<JsStr(questions[1].question_text)>> ELSE <<>>)
            \o <<answerToCSV(questions[1].answer_json)>> >>
         \o QuestionRows(display, section, Tail(questions))

RECURSIVE SectionRows(_, _)
SectionRows(display, sections) ==
  IF sections = <<>> THEN <<>>
  ELSE (IF IsDefined(sections[1].questions)
          THEN QuestionRows(display, sections[1], Get(sections[1].questions))
          ELSE <<>>)
         \o SectionRows(display, Tail(sections))

\* the column headings of renderCSV with the Question column always present
CsvColumns_AlwaysQuestion(display, data) ==
  IF IsDefined(SectionsOf(data))
    THEN (IF display.includeSectionHeadings THEN <<"Section">> ELSE <<>>)
           \o <<"Question", "Answer">>
    ELSE <<>>

\* the column headings renderCSV defines: none without narrative content
CsvColumns(display, data) ==
  IF IsDefined(SectionsOf(data))
    THEN (IF display.includeSectionHeadings THEN <<"Section">> ELSE <<>>)
           \o (IF display.includeQuestionText THEN <<"Question">> ELSE <<>>)
           \o <<"Answer">>
    ELSE <<>>

CsvRows(display, data) ==
  IF IsDefined(SectionsOf(data)) THEN SectionRows(display, Get(SectionsOf(data))) ELSE <<>>

renderCSVThrows(data) ==
  /\ IsDefined(SectionsOf(data))
  /\ \E i \in 1..Len(Get(SectionsOf(data))) :
       LET qs == Get(SectionsOf(data))[i].questions
       IN  IsDefined(qs) /\ \E k \in 1..Len(Get(qs)) : answerToCSVThrows(Get(qs)[k].answer_json)

\* stringify(rows, { header: true, columns }) of csv-stringify: the lines of
\* the output; with no columns it writes either nothing or one empty line
stringify(rows, columns) ==
  IF columns = <<>> THEN {rows, <<<<>>>> \o rows} ELSE {<<columns>> \o rows}

DisplayOptions ==
  [includeCoverPage : BOOLEAN, includeSectionHeadings : BOOLEAN,
   includeQuestionText : BOOLEAN, includeUnansweredQuestions : BOOLEAN,
   includeResearchOutputs : BOOLEAN, includeRelatedWorks : BOOLEAN]

\* the display options that renderCSV reads
CsvDisplayOptions ==
  {d \in DisplayOptions : d.includeCoverPage /\ d.includeUnansweredQuestions
                            /\ d.includeResearchOutputs /\ d.includeRelatedWorks}

InitCSV ==
  /\ InitPure
  /\ call \in [fn : {"renderCSV"}, state : {"called"},
               display : CsvDisplayOptions, data : CsvPlans]

\* renderCSV returns the lines of the document or throws
CallRenderCSV ==
  /\ call.state = "called"
  /\ call.fn = "renderCSV"
  /\ IF renderCSVThrows(call.data)
       THEN call' = [fn |-> call.fn, state |-> "threw", args |-> call]
       ELSE \E lines \in stringify(CsvRows(call.display, call.data),
                                   CsvColumns(call.display, call.data)) :
              call' = [fn |-> call.fn, state |-> "returned", args |-> call,
                       result |-> lines]
  /\ UNCHANGED <<serverVars, permCall, pdf>>

NextCSV == CallRenderCSV

SpecCSV == InitCSV /\ [][NextCSV]_vars

----------------------------------------------------------------------------
(* renderHTML (the Handlebars template) *)

\* {{title}}: Handlebars escapes the markup characters of the value
escapeExpression(x) ==
  IF x = Undefined THEN <<>>
  ELSE IF x = JsStr("A <b> plan")
    THEN <<Text("A "), Entity("lt"), Text("b"), Entity("gt"), Text(" plan")>>
  ELSE <<Text(Get(x).str)>>

\* the text of the <style> element: the page margins and the font
Css(margin, font) == [css |-> [margin |-> margin, font |-> font]]

Void(name) == <<Open(name)>>
PageBreak == <<[open |-> "div", class |-> "page-break"], Close("div")>>

Margins ==
  {[marginTop |-> 76, marginRight |-> 96, marginBottom |-> 76, marginLeft |-> 96],
   [marginTop |-> 0, marginRight |-> 25, marginBottom |-> 25, marginLeft |-> 25]}

\* the string `${n}px`
Px(n) == [px |-> n]

Fonts == {[fontFamily |-> "Tinos, serif", fontSize |-> Px(n), lineHeight |-> 120] :
            n \in {0, 11, 15, 16}}

\* {{#if question}}: an absent or empty list is falsy
HasItems(list) == IsDefined(list) /\ Get(list) # <<>>

\* doi.replace(/^(https?:\/\/)?(dx\.)?doi\.org\//, "")
doiForDisplay(doi) ==
  IF doi = "https://doi.org/10.1/x" THEN "10.1/x" ELSE doi

\* identifier.replace(/^(https?:\/\/)?(orcid\.org\/)?/, "")
orcidForDisplay(identifier) ==
  IF identifier = "https://orcid.org/0000-0001" THEN "0000-0001" ELSE identifier

\* a name as a triple-stash helper result or an element of a joined array:
\* undefined is written as nothing
NameText(name) == IF IsNullish(name) THEN <<>> ELSE ParseHTML(Get(name).str)

\* contactIdentifierForDisplay: the ORCID of the contact, nothing otherwise
contactIdentifierForDisplay(contactId) ==
  IF ~IsDefined(contactId) THEN <<>>
  ELSE IF Get(contactId).type = JsStr("orcid") /\ Truthy(Get(contactId).identifier)
    THEN <<Text("- ")>> \o Element("strong", <<Text("ORCID:")>>) \o <<Text(" ")>>
           \o Link(Get(Get(contactId).identifier).str,
                   <<Text(orcidForDisplay(Get(Get(contactId).identifier).str))>>)
  ELSE <<>>

\* x?.identifier of an optional identifier object
IdentifierOf(id) == IF IsDefined(id) THEN Get(id).identifier ELSE Undefined

\* a name, linked to the identifier when there is one
LinkedName(id, name) ==
  IF Truthy(IdentifierOf(id))
    THEN Link(Get(IdentifierOf(id)).str, <<Text(Interpolate(name))>>)
    ELSE NameText(name)

\* affiliationForDisplay: the first affiliation of the contact
affiliationForDisplay(affiliation) ==
  IF ~HasItems(affiliation) THEN <<>>
  ELSE LinkedName(Get(affiliation)[1].affiliation_id, Get(affiliation)[1].name)

\* out.join(sep) of pieces of markup
RECURSIVE JoinTokens(_, _)
JoinTokens(pieces, sep) ==
  IF pieces = <<>> THEN <<>>
  ELSE IF Len(pieces) = 1 THEN pieces[1]
  ELSE pieces[1] \o <<Text(sep)>> \o JoinTokens(Tail(pieces), sep)

\* contributor.role.includes(role) on a contributor without a role: TypeError
contributorsForRoleThrows(contributors) ==
  /\ HasItems(contributors)
  /\ \E i \in 1..Len(Get(contributors)) : Get(contributors)[i].role = Undefined

\* contributorsForRole: the contributors that have the role, joined by "; "
contributorsForRole(role, contributors) ==
  IF ~HasItems(contributors) THEN <<>>
  ELSE LET HasRole(c) == Includes(Get(c.role), role)
           matching == SelectSeq(Get(contributors), HasRole)
           out == [i \in 1..Len(matching) |->
                     LinkedName(matching[i].contributor_id, matching[i].name)]
       IN  IF out = <<>> THEN <<Text("None specified")>> ELSE JoinTokens(out, "; ")

\* project.map(p => p.funding).flat() without the null and undefined entries
RECURSIVE Funding(_)
Funding(project) ==
  IF project = <<>> THEN <<>>
  ELSE (IF IsDefined(project[1].funding) THEN Get(project[1].funding) ELSE <<>>)
         \o Funding(Tail(project))

\* fundersForDisplay: the funders of all projects, joined by "; "
fundersForDisplay(project) ==
  IF ~HasItems(project) THEN <<>>
  ELSE LET funding == Funding(Get(project))
       IN  JoinTokens([i \in 1..Len(funding) |->
                         LinkedName(funding[i].funder_id, funding[i].name)], "; ")

\* displayProjectAbstract: the description of the first project
displayProjectAbstract(project) ==
  IF ~HasItems(project) THEN <<>> ELSE NameText(Get(project)[1].description)

\* the formatted dates in the order of String comparison by code units
CodeUnitOrder == <<"April 2025", "December 2023", "January 2024", "None specified">>

\* Array.prototype.sort() without a comparator on formatted dates
sort(dates) ==
  LET At(k) == SelectSeq(dates, LAMBDA d : d = CodeUnitOrder[k])
  IN  At(1) \o At(2) \o At(3) \o At(4)

\* displayProjectStartDate: dates.sort()[0] of the formatted start dates
displayProjectStartDate(project) ==
  IF ~HasItems(project) THEN ""
  ELSE LET dates == [i \in 1..Len(Get(project)) |->
                       formatDate(Get(project)[i].start, FALSE)]
       IN  IF Len(dates) = 0 THEN "None specified" ELSE sort(dates)[1]

\* displayProjectEndDate: dates.sort()[dates.length - 1] of the end dates
displayProjectEndDate(project) ==
  IF ~HasItems(project) THEN ""
  ELSE LET dates == [i \in 1..Len(Get(project)) |->
                       formatDate(Get(project)[i].end, FALSE)]
       IN  IF Len(dates) = 0 THEN "None specified" ELSE sort(dates)[Len(dates)]

\* copyrightForDisplay: the notice for a public plan or for any other
copyrightForDisplay(visibility) ==
  IF visibility \in {JsStr("public"), JsStr("PUBLIC ")}
    THEN <<Text("The above plan creator(s) have agreed that others may use")>>
    ELSE <<Text("This document is intended for internal use only.")>>

\* {{narrative.template.title}} and {{narrative.template.version}}
TemplateField(data, name) ==
  IF /\ IsDefined(data.narrative) /\ IsDefined(Get(data.narrative).template)
     /\ name \in DOMAIN Get(Get(data.narrative).template)
    THEN Get(Get(data.narrative).template)[name]
    ELSE Undefined

\* {{contact.name}}, {{contact.contact_id}}, {{contact.affiliation}}
ContactField(data, name) ==
  IF IsDefined(data.contact) THEN Get(data.contact)[name] ELSE Undefined

Labelled(tag, label, content) ==
  Element("p", Element(tag, <<Text(label)>>) \o <<Text(" ")>> \o content)

\* the cover page: title and the plan's details
CoverPage(data) ==
  Element("h1", escapeExpression(data.title)) \o Void("hr")
    \o <<[open |-> "div", class |-> "cover-page"]>>
    \o Element("p", Element("em",
         <<Text("A Data Management Plan created using the DMP Tool")>>))
    \o (IF Truthy(data.registered)
          THEN Labelled("b", "DMP ID:",
                 LET id == IdentifierOf(data.dmp_id)
                 IN  IF IsStr(id)
                       THEN Link(Get(id).str, <<Text(doiForDisplay(Get(id).str))>>)
                       ELSE Link("", <<>>))
          ELSE <<>>)
    \o Labelled("strong", "Creator:",
          escapeExpression(ContactField(data, "name")) \o <<Text(" ")>>
            \o contactIdentifierForDisplay(ContactField(data, "contact_id")))
    \o Labelled("strong", "Affiliation:",
          affiliationForDisplay(ContactField(data, "affiliation")))
    \o Labelled("b", "Principal Investigator(s): ",
          contributorsForRole("https://credit.niso.org/contributor-roles/investigation",
                              data.contributor))
    \o Labelled("b", "Funder: ", fundersForDisplay(data.project))
    \o Labelled("b", "DMP Tool Template: ",
          escapeExpression(TemplateField(data, "title")) \o <<Text(" - ")>>
            \o escapeExpression(TemplateField(data, "version")))
    \o Labelled("b", "Project abstract: ",
          Element("div", Element("p", displayProjectAbstract(data.project))))
    \o Labelled("b", "Start date: ", <<Text(displayProjectStartDate(data.project))>>)
    \o Labelled("b", "End date: ", <<Text(displayProjectEndDate(data.project))>>)
    \o Labelled("strong", "Copyright information:", copyrightForDisplay(data.privacy))
    \o <<Close("div")>> \o Void("hr") \o PageBreak

RECURSIVE Questions(_, _, _)
Questions(questions, display, defaults) ==
  IF questions = <<>> THEN <<>>
  ELSE questionAnswerForDisplay(questions[1].text, questions[1].answer,
                                display.includeQuestionText,
                                display.includeUnansweredQuestions, defaults)
         \o Questions(Tail(questions), display, defaults)

RECURSIVE Sections(_, _, _)
Sections(sections, display, defaults) ==
  IF sections = <<>> THEN <<>>
  ELSE <<[open |-> "div", class |-> "section"]>>
         \o (IF display.includeSectionHeadings
               THEN Element("h2", escapeExpression(sections[1].title)) \o Void("hr")
               ELSE <<>>)
         \o (IF HasItems(sections[1].question)
               THEN Questions(Get(sections[1].question), display, defaults)
                      \o <<Close("p")>>
               ELSE <<>>)
         \o <<Close("div")>>
         \o Sections(Tail(sections), display, defaults)

\* data.narrative.template.section, undefined when a link of the chain is
SectionList(data) ==
  IF IsDefined(data.narrative) /\ IsDefined(Get(data.narrative).template)
    THEN Get(Get(data.narrative).template).section
    ELSE Undefined

\* workType.replace(/_/g, " ")
ReplaceUnderscores(workType) ==
  CASE workType = "journal_article" -> "journal article"
    [] workType = "book_chapter" -> "book chapter"
    [] OTHER -> workType

\* pluralize(typeLabel)
pluralize(typeLabel) ==
  CASE typeLabel = "dataset" -> "datasets"
    [] typeLabel = "journal article" -> "journal articles"
    [] typeLabel = "book" -> "books"
    [] typeLabel = "book chapter" -> "book chapters"
    [] OTHER -> typeLabel

\* `${typeLabel[0].toUpperCase()}${typeLabel.slice(1)}`
Capitalize(typeLabel) ==
  CASE typeLabel = "dataset" -> "Dataset"
    [] typeLabel = "datasets" -> "Datasets"
    [] typeLabel = "journal article" -> "Journal article"
    [] typeLabel = "journal articles" -> "Journal articles"
    [] typeLabel = "book" -> "Book"
    [] typeLabel = "books" -> "Books"
    [] typeLabel = "book chapter" -> "Book chapter"
    [] typeLabel = "book chapters" -> "Book chapters"
    [] OTHER -> typeLabel

\* workTypeForDisplay: underscores to spaces, pluralized on request, capitalized
workTypeForDisplay(workType, pluralizeIt) ==
  IF workType = "" THEN ""
  ELSE LET typeLabel == ReplaceUnderscores(workType)
       IN  Capitalize(IF pluralizeIt THEN pluralize(typeLabel) ELSE typeLabel)

\* String.prototype.includes on the work types: every string includes
\* itself, and "book_chapter" includes "book"
StringIncludes(x, part) == x = part \/ (x = "book_chapter" /\ part = "book")

\* work.type.includes(workType): a substring test when the type is a string,
\* membership when it is an array (reading it of an absent type throws)
TypeIncludes(type, workType) ==
  IF IsStr(type) THEN StringIncludes(Get(type).str, workType)
  ELSE Includes(Get(type).arr, workType)

\* relatedWorksForType: the <li> of each work whose type includes workType
RECURSIVE relatedWorksForType(_, _)
relatedWorksForType(workType, works) ==
  IF works = <<>> THEN <<>>
  ELSE (IF TypeIncludes(works[1].type, workType)
          THEN Element("li",
                 IF Truthy(works[1].citation)
                   THEN ParseHTML(Get(works[1].citation).str)
                   ELSE Link(works[1].identifier, <<Text(works[1].identifier)>>))
          ELSE <<>>)
         \o relatedWorksForType(workType, Tail(works))

\* works.map(work => work.type).flat()
RECURSIVE WorkTypes(_)
WorkTypes(works) ==
  IF works = <<>> THEN <<>>
  ELSE (IF IsStr(works[1].type) THEN <<Get(works[1].type).str>>
        ELSE Get(works[1].type).arr)
         \o WorkTypes(Tail(works))

\* [...new Set(workTypes)]: the distinct types in order of first occurrence
RECURSIVE UniqueTypes(_, _)
UniqueTypes(workTypes, seen) ==
  IF workTypes = <<>> THEN <<>>
  ELSE IF workTypes[1] \in seen THEN UniqueTypes(Tail(workTypes), seen)
  ELSE <<workTypes[1]>> \o UniqueTypes(Tail(workTypes), seen \cup {workTypes[1]})

\* the loop of relatedWorksByType over the distinct types
RECURSIVE WorksByType(_, _)
WorksByType(types, works) ==
  IF types = <<>> THEN <<>>
  ELSE (IF relatedWorksForType(types[1], works) # <<>>
          THEN Element("li",
                 Element("strong", <<Text(workTypeForDisplay(types[1], TRUE))>>)
                   \o Element("ul", relatedWorksForType(types[1], works)))
          ELSE <<>>)
         \o WorksByType(Tail(types), works)

\* work.type.includes(workType) on a work without a type: TypeError
relatedWorksByTypeThrows(works) ==
  HasItems(works) /\ \E i \in 1..Len(Get(works)) : Get(works)[i].type = Undefined

relatedWorksByType(works) ==
  IF ~HasItems(works) THEN <<>>
  ELSE LET out == WorksByType(UniqueTypes(WorkTypes(Get(works)), {}), Get(works))
       IN  IF out = <<>> THEN <<Text("None specified")>> ELSE Element("ul", out)

RelatedWorksAppendix(data) ==
  PageBreak \o <<[open |-> "div", style |-> "page-break-before:always;"], Close("div")>>
    \o Element("h1", escapeExpression(data.title))
    \o Element("h2", <<Text("Related Works")>>)
    \o relatedWorksByType(data.related_identifier)
    \o Void("hr")

\* a helper of the template throws: the 'answered' determination of a
\* question, the role filter of the cover page or the type filter of the
\* related-works appendix
renderHTMLThrows(display, data) ==
  \/ display.includeCoverPage /\ contributorsForRoleThrows(data.contributor)
  \/ /\ HasItems(SectionList(data))
     /\ \E i \in 1..Len(Get(SectionList(data))) :
          LET qs == Get(SectionList(data))[i].question
          IN  HasItems(qs) /\ \E k \in 1..Len(Get(qs)) : answeredThrows(Get(qs)[k].answer)
  \/ display.includeRelatedWorks /\ relatedWorksByTypeThrows(data.related_identifier)

\* renderHTML: the document as a sequence of tokens
renderHTML(display, margin, font, data, defaults) ==
  <<Open("html"), Open("head")>> \o Void("meta")
    \o Element("title", escapeExpression(data.title))
    \o <<Open("style"), Css(margin, font), Close("style")>>
    \o <<Close("head"), Open("body"), Text("\n      ")>>
    \o (IF display.includeCoverPage THEN CoverPage(data) ELSE <<>>)
    \o Element("h1", escapeExpression(data.title))
    \o (IF HasItems(SectionList(data))
          THEN Sections(Get(SectionList(data)), display, defaults) ELSE <<>>)
    \o Void("hr")
    \o (IF display.includeRelatedWorks /\ HasItems(data.related_identifier)
          THEN RelatedWorksAppendix(data) ELSE <<>>)
    \o <<Close("body"), Close("html")>>

----------------------------------------------------------------------------
(* renderTXT (txt.ts): the text nodes of the document outside <style> *)

\* the elements for which the parser reports the closing tag with the opening
VoidElements == {"meta", "hr", "br"}

\* text.replace(/\s+/g, ' ')
CollapseSpace(x) == IF x \in {"\n      ", "  "} THEN " " ELSE x

\* decodeEntities: the character a reference stands for
DecodeEntity(name) ==
  CASE name = "lt" -> "<" [] name = "gt" -> ">" [] OTHER -> "&"

\* the text of the <style> element as the parser reports it
StyleText == "@page { margin-top: "

\* the text a token contributes through ontext
TokenText(token) ==
  CASE "text" \in DOMAIN token -> CollapseSpace(token.text)
    [] "entity" \in DOMAIN token -> DecodeEntity(token.entity)
    [] OTHER -> StyleText

IsTextToken(token) == DOMAIN token \in {{"text"}, {"entity"}, {"css"}}

\* ontext that appends the text whatever the element
ontext_KeepsStyle(token, inStyleTag) == <<TokenText(token)>>

\* ontext: the text is appended unless the parser is inside <style>
ontext(token, inStyleTag) == IF inStyleTag THEN <<>> ELSE <<TokenText(token)>>

\* inStyleTag when the parser reaches token i: a <style> was opened before
\* it and not closed since
InStyleTag(tokens, i) ==
  \E j \in 1..(i - 1) :
    /\ "open" \in DOMAIN tokens[j] /\ tokens[j].open = "style"
    /\ \A k \in (j + 1)..(i - 1) :
         ~("close" \in DOMAIN tokens[k] /\ tokens[k].close = "style")

\* what the callback for token i appends to plainText
Appended(tokens, i) ==
  LET token == tokens[i]
  IN  IF IsTextToken(token) THEN ontext(token, InStyleTag(tokens, i))
      ELSE IF "open" \in DOMAIN token
        THEN (IF token.open \in VoidElements THEN <<"\n">> ELSE <<>>)
      ELSE IF token.close = "style" THEN <<>>
      ELSE <<"\n">>

\* parser.write(html): the callbacks in document order
Parse(tokens) ==
  LET Appends(i) == Appended(tokens, i) # <<>>
      indices == SelectSeq([i \in 1..Len(tokens) |-> i], Appends)
  IN  [k \in 1..Len(indices) |-> Appended(tokens, indices[k])[1]]

\* renderTXT: the pieces of plainText in order
renderTXT(html) == Parse(html)

----------------------------------------------------------------------------
(* Calls of renderHTML, and of renderTXT on its result *)

HtmlJsons ==
  {Undefined,
   Some([type |-> JsStr("text"), answer |-> JsStr("abc")]),
   Some([type |-> JsStr("text"), answer |-> JsStr("")]),
   Some([type |-> JsStr("textArea"), answer |-> JsStr("a &lt; b")]),
   Some([type |-> JsStr("textArea"), answer |-> JsStr("<b>x</b>")]),
   Some([type |-> JsStr("boolean"), answer |-> JsBool(FALSE)]),
   Some([type |-> JsStr("currency"), answer |-> JsNum(0)]),
   Some([type |-> JsStr("checkBoxes"), answer |-> JsStr("abc")]),
   Some([type |-> JsStr("bogus"), answer |-> JsStr("abc")]),
   Some([type |-> JsStr("dateRange"), answer |-> Undefined])}

HtmlQuestion(json) == [text |-> "Q1", answer |-> Some([id |-> 1, json |-> json])]
HtmlSection(title, questions) == [title |-> JsStr(title), question |-> questions]
Narrative(sections) == Some([template |-> Some([section |-> sections])])

Narratives ==
  {Undefined, Some([template |-> Undefined]), Narrative(Undefined), Narrative(Some(<<>>)),
   Narrative(Some(<<HtmlSection("S1", Undefined)>>))}
  \cup {Narrative(Some(<<HtmlSection("S1", Some(<<HtmlQuestion(j)>>))>>)) : j \in HtmlJsons}
  \cup {Narrative(Some(<<HtmlSection("S1", Some(<<HtmlQuestion(j)>>)),
                         HtmlSection("S2", Some(<<HtmlQuestion(
                           Some([type |-> JsStr("text"), answer |-> JsStr("abc")]))>>))>>)) :
          j \in HtmlJsons}

RelatedWork(type, citation) ==
  [type |-> type, identifier |-> "https://doi.org/10.1/x", citation |-> citation]

RelatedWorkLists ==
  {Undefined, Some(<<>>),
   Some(<<RelatedWork(JsStr("dataset"), Undefined),
          RelatedWork(JsStr("journal_article"), JsStr("abc"))>>)}

\* the research outputs of the plan
DatasetLists == {Undefined, Some(<<[title |-> "Survey data", type |-> "dataset"]>>)}

\* the details of a plan that the cover page shows
CoverFields == {"registered", "dmp_id", "contact", "contributor", "project", "privacy"}

\* a plan without the details of the cover page
NoCover == [f \in CoverFields |-> Undefined]

\* the plan as one record (a function from field names)
Plan(body, cover) ==
  [f \in DOMAIN body \cup CoverFields |-> IF f \in CoverFields THEN cover[f] ELSE body[f]]

HtmlPlans ==
  {Plan(body, NoCover) :
     body \in [title : {Undefined, JsStr("Plan"), JsStr("A <b> plan")},
               narrative : Narratives, related_identifier : RelatedWorkLists,
               dataset : DatasetLists]}

InitHTML ==
  /\ InitPure
  /\ call \in [fn : {"renderHTML"}, state : {"called"}, display : DisplayOptions,
               margin : {CHOOSE m \in Margins : m.marginTop = 76},
               font : {f \in Fonts : f.fontSize = Px(15)},
               data : HtmlPlans, defaults : BOOLEAN]

\* renderHTML returns the document or a helper of the template throws
CallRenderHTML ==
  /\ call.state = "called"
  /\ call.fn = "renderHTML"
  /\ call' =
       IF renderHTMLThrows(call.display, call.data)
         THEN [fn |-> call.fn, state |-> "threw", args |-> call]
         ELSE [fn |-> call.fn, state |-> "returned", args |-> call,
               result |-> renderHTML(call.display, call.margin, call.font,
                                     call.data, call.defaults)]
  /\ UNCHANGED <<serverVars, permCall, pdf>>

\* the text/plain branch of the handler: renderTXT(renderHTML(...))
CallRenderTXT ==
  /\ call.state = "returned"
  /\ call.fn = "renderHTML"
  /\ call' = [fn |-> "renderTXT", state |-> "returned", args |-> call.args,
              html |-> call.result, result |-> renderTXT(call.result)]
  /\ UNCHANGED <<serverVars, permCall, pdf>>

NextHTML == CallRenderHTML \/ CallRenderTXT

SpecHTML == InitHTML /\ [][NextHTML]_vars

----------------------------------------------------------------------------
(* Calls of renderHTML on plans with cover-page details and related works *)

Identifier(x) == Some([identifier |-> x])

CoverAffiliations ==
  {Undefined, Some(<<>>),
   Some(<<[name |-> JsStr("UC"), affiliation_id |-> Undefined]>>),
   Some(<<[name |-> JsStr("UC"), affiliation_id |-> Identifier(JsStr("https://ror.org/01"))]>>)}

CoverContactIds ==
  {Undefined,
   Some([type |-> JsStr("orcid"), identifier |-> JsStr("https://orcid.org/0000-0001")]),
   Some([type |-> JsStr("other"), identifier |-> JsStr("abc")])}

CoverContacts ==
  {Undefined, Some([name |-> Undefined, contact_id |-> Undefined, affiliation |-> Undefined])}
  \cup {Some([name |-> JsStr("Ann"), contact_id |-> id, affiliation |-> aff]) :
          id \in CoverContactIds, aff \in CoverAffiliations}

Investigation == "https://credit.niso.org/contributor-roles/investigation"

Contributor(name, role, id) == [name |-> JsStr(name), role |-> role, contributor_id |-> id]

CoverContributors ==
  {Undefined, Some(<<>>),
   Some(<<Contributor("Bob", Some(<<Investigation>>), Identifier(JsStr("https://orcid.org/0000-0001")))>>),
   Some(<<Contributor("Bob", Some(<<Investigation>>), Undefined),
          Contributor("Cy", Some(<<"https://credit.niso.org/contributor-roles/software">>),
                      Undefined),
          Contributor("Di", Some(<<Investigation>>), Identifier(Undefined))>>),
   Some(<<Contributor("Cy", Some(<<>>), Undefined)>>),
   Some(<<Contributor("Bob", Some(<<Investigation>>), Undefined),
          Contributor("Cy", Undefined, Undefined)>>)}

Project(start, end, funding) ==
  [start |-> start, end |-> end, funding |-> funding, description |-> JsStr("abc")]

ProjectDates == {Undefined, JsStr("2023-12-15"), JsStr("2024-01-02"), JsStr("2025-04-10")}

CoverFunding ==
  {Undefined, Some(<<>>),
   Some(<<[name |-> JsStr("NSF"), funder_id |-> Identifier(JsStr("https://ror.org/02"))]>>),
   Some(<<[name |-> JsStr("NSF"), funder_id |-> Undefined],
          [name |-> Undefined, funder_id |-> Undefined]>>)}

CoverProjects ==
  {Undefined, Some(<<>>)}
  \cup {Some(<<Project(Undefined, Undefined, f)>>) : f \in CoverFunding}
  \cup {Some(<<Project(d, d, Undefined)>>) : d \in ProjectDates}
  \cup {Some(<<Project(s1, e1, Undefined), Project(s2, e2, Undefined)>>) :
          s1, e1, s2, e2 \in ProjectDates}

CoverWorks ==
  {Undefined, Some(<<>>),
   Some(<<RelatedWork(JsStr("dataset"), Undefined)>>),
   Some(<<RelatedWork(JsStr("dataset"), Undefined), RelatedWork(JsStr("dataset"), JsStr("abc"))>>),
   Some(<<RelatedWork(JsStr("journal_article"), JsStr("abc")),
          RelatedWork(JsStr("dataset"), Undefined),
          RelatedWork(JsStr("journal_article"), JsStr("<b>x</b>"))>>),
   Some(<<RelatedWork(JsStr("book_chapter"), JsStr("abc")), RelatedWork(JsStr("book"), Undefined)>>),
   Some(<<RelatedWork(JsStr("book"), Undefined), RelatedWork(JsStr("book_chapter"), JsStr("abc"))>>),
   Some(<<RelatedWork(JsArr(<<"dataset">>), Undefined),
          RelatedWork(JsArr(<<"journal_article">>), Undefined)>>),
   Some(<<RelatedWork(JsArr(<<"dataset", "journal_article">>), Undefined)>>),
   Some(<<RelatedWork(JsStr("dataset"), JsStr("abc")), RelatedWork(Undefined, JsStr("abc"))>>),
   Some(<<RelatedWork(Undefined, Undefined)>>)}

CoverNarratives ==
  {Undefined,
   Some([template |->
           Some([title |-> JsStr("T"), version |-> JsStr("v1"),
                 section |-> Some(<<HtmlSection("S1", Some(<<HtmlQuestion(
                   Some([type |-> JsStr("text"), answer |-> JsStr("abc")]))>>))>>)])])}

CoverBody(narrative, works) ==
  [title |-> JsStr("Plan"), narrative |-> narrative, related_identifier |-> works,
   dataset |-> Undefined]

\* plans that vary in the people of the cover page, and plans that vary in
\* the projects and the related works
CoverPlans ==
  {Plan(CoverBody(n, Some(<<RelatedWork(JsStr("dataset"), Undefined)>>)), cover) :
     n \in CoverNarratives,
     cover \in [registered : {Undefined, JsStr("2024-01-02")},
                dmp_id : {Identifier(JsStr("https://doi.org/10.1/x"))},
                contact : CoverContacts, contributor : CoverContributors,
                project : {Undefined}, privacy : {Undefined, JsStr("public")}]}
  \cup
  {Plan(CoverBody(Undefined, w), [NoCover EXCEPT !.project = p]) :
     w \in CoverWorks, p \in CoverProjects}

CoverDisplays ==
  {d \in DisplayOptions :
     /\ d.includeSectionHeadings /\ d.includeQuestionText
     /\ d.includeUnansweredQuestions /\ d.includeResearchOutputs}

InitCover ==
  /\ InitPure
  /\ call \in [fn : {"renderHTML"}, state : {"called"}, display : CoverDisplays,
               margin : {CHOOSE m \in Margins : m.marginTop = 76},
               font : {f \in Fonts : f.fontSize = Px(15)},
               data : CoverPlans, defaults : {TRUE}]

SpecCover == InitCover /\ [][NextHTML]_vars

----------------------------------------------------------------------------
(* Formatting options (helper.ts) and renderDOCX (docx.ts) *)

\* largest value of the fontSize query parameter
MaxPoints == 60

\* a numeric query parameter: absent, blank, not a number, or a number
QueryNumbers ==
  {Undefined, JsStr(""), JsStr(" "), JsStr("abc")} \cup {JsNum(n) : n \in (-2)..MaxPoints}

\* safeNumber: the fallback for a blank string and for NaN
safeNumber(value, fallback) ==
  IF IsStr(value) /\ Trim(Get(value).str) = "" THEN fallback
  ELSE IF IsNum(value) THEN Get(value).num
  ELSE fallback

\* Math.round(a / b) for b > 0: halves round up
RoundDiv(a, b) == (2 * a + b) \div (2 * b)

\* pointsToFontSize: Math.round((points / 72) * 96) px, 15px for 0 and below
pointsToFontSize(points) ==
  IF points = 0 \/ points <= 0 THEN Px(15) ELSE Px(RoundDiv(points * 96, 72))

InitFont ==
  /\ InitPure
  /\ call \in [fn : {"pointsToFontSize"}, state : {"called"}, fontSize : QueryNumbers]

\* prepareOptions: font.fontSize from the fontSize query parameter
CallPointsToFontSize ==
  /\ call.state = "called"
  /\ call.fn = "pointsToFontSize"
  /\ call' = [fn |-> call.fn, state |-> "returned", args |-> call,
              points |-> safeNumber(call.fontSize, 11),
              result |-> pointsToFontSize(safeNumber(call.fontSize, 11))]
  /\ UNCHANGED <<serverVars, permCall, pdf>>

NextFont == CallPointsToFontSize

SpecFont == InitFont /\ [][NextFont]_vars

\* mmToTwip: `if (mm || mm <= 0) return 0` returns 0 for every non-zero
\* number and for 0
mmToTwip(mm) ==
  IF mm # 0 \/ mm <= 0 THEN 0 ELSE RoundDiv(mm * 14400, 254)

\* pxToHip: the same guard
pxToHip(px) ==
  IF px # 0 \/ px <= 0 THEN 0 ELSE RoundDiv(px * 72 * 2, 96)

MarginValues == {-5, 0, 1, 25, 76, 96}

DocxMargins ==
  [marginTop : MarginValues, marginRight : MarginValues,
   marginBottom : {0, 76}, marginLeft : {25, 96}]

\* documentOptions of renderDOCX
documentOptions(title, margin, font) ==
  [title |-> title, orientation |-> "portrait",
   margins |-> [top |-> mmToTwip(margin.marginTop), right |-> mmToTwip(margin.marginRight),
                bottom |-> mmToTwip(margin.marginBottom), left |-> mmToTwip(margin.marginLeft)],
   pageSize |-> [width |-> 12240, height |-> 15840], pageNumber |-> TRUE,
   font |-> font.fontFamily, fontSize |-> pxToHip(font.fontSize.px)]

InitDOCX ==
  /\ InitPure
  /\ call \in [fn : {"renderDOCX"}, state : {"called"}, title : {"Plan"},
               margin : DocxMargins, font : Fonts]

\* renderDOCX hands the document options to HtmlToDocx, which returns the
\* document or throws ("Unable to render DOCX.")
CallRenderDOCX ==
  /\ call.state = "called"
  /\ call.fn = "renderDOCX"
  /\ \E ok \in BOOLEAN :
       call' = [fn |-> call.fn, state |-> IF ok THEN "returned" ELSE "threw",
                args |-> call,
                options |-> documentOptions(call.title, call.margin, call.font)]
  /\ UNCHANGED <<serverVars, permCall, pdf>>

NextDOCX == CallRenderDOCX

SpecDOCX == InitDOCX /\ [][NextDOCX]_vars

----------------------------------------------------------------------------
(* Content negotiation of the narrative handler (processAccept, dispatch) *)

CSV_TYPE == "text/csv"
DOCX_TYPE == "application/vnd.openxmlformats-officedocument.wordprocessingml.document"
HTML_TYPE == "text/html"
JSON_TYPE == "application/json"
TXT_TYPE == "text/plain"
PDF_TYPE == "application/pdf"

SupportedTypes == {CSV_TYPE, DOCX_TYPE, HTML_TYPE, JSON_TYPE, TXT_TYPE, PDF_TYPE}

\* the media types a client can list
MediaTypes == SupportedTypes \cup {"application/xml", "*/*"}

\* largest number of media types before the first parameter of the header
MaxTypes == 2

\* An Accept header is modelled by its pieces: header[i] is the i-th piece
\* between semicolons, itself the sequence of its pieces between commas.
\* 'text/html,application/xml;q=0.9,text/csv' is
\* << <<"text/html", "application/xml">>, <<"q=0.9", "text/csv">> >>.
TypeLists == UNION {[1..n -> MediaTypes] : n \in 1..MaxTypes}

AcceptHeaders ==
  {<<first>> : first \in TypeLists}
  \cup {<<first, <<"q=0.9">> >> : first \in TypeLists}
  \cup {<<first, <<"q=0.9", t>>, <<"q=0.8">> >> : first \in TypeLists, t \in MediaTypes}

\* the media types the header lists: the pieces that are not parameters
ListedTypes(header) ==
  UNION {{header[i][k] : k \in 1..Len(header[i])} : i \in 1..Len(header)} \cap MediaTypes

Extensions == {"csv", "docx", "json", "pdf", "txt", "html", "xyz"}

\* the accept string of the handler: from the extension when there is one,
\* else the Accept header, else text/html
AcceptOf(ext, header) ==
  IF IsDefined(ext)
    THEN << <<CASE Get(ext) = "csv" -> CSV_TYPE [] Get(ext) = "docx" -> DOCX_TYPE
               [] Get(ext) = "json" -> JSON_TYPE [] Get(ext) = "pdf" -> PDF_TYPE
               [] Get(ext) = "txt" -> TXT_TYPE [] OTHER -> HTML_TYPE>> >>
  ELSE IF IsDefined(header) THEN Get(header)
  ELSE << <<HTML_TYPE>> >>

\* processAccept: accept.split(";")[0].split(",")
processAccept(accept) == accept[1]

\* the format the dispatch selects: the first supported type, in the order
\* of the else-if chain, that acceptedTypes includes
Dispatch(acceptedTypes) ==
  CASE Includes(acceptedTypes, CSV_TYPE) -> CSV_TYPE
    [] Includes(acceptedTypes, DOCX_TYPE) -> DOCX_TYPE
    [] Includes(acceptedTypes, HTML_TYPE) -> HTML_TYPE
    [] Includes(acceptedTypes, JSON_TYPE) -> JSON_TYPE
    [] Includes(acceptedTypes, PDF_TYPE) -> PDF_TYPE
    [] Includes(acceptedTypes, TXT_TYPE) -> TXT_TYPE
    [] OTHER -> "none"

InitAccept ==
  /\ InitPure
  /\ call \in [fn : {"negotiate"}, state : {"called"}, ext : {Undefined},
               header : {Undefined} \cup {Some(h) : h \in AcceptHeaders}]
            \cup [fn : {"negotiate"}, state : {"called"},
                  ext : {Some(e) : e \in Extensions}, header : {Undefined}]

\* the handler negotiates the format of an authorized request whose
\* rendering succeeds
Negotiate ==
  /\ call.state = "called"
  /\ call.fn = "negotiate"
  /\ LET acceptedTypes == processAccept(AcceptOf(call.ext, call.header))
         format == Dispatch(acceptedTypes)
     IN  call' = [fn |-> call.fn, state |-> "returned", args |-> call,
                  acceptedTypes |-> acceptedTypes, format |-> format,
                  status |-> IF format = "none" THEN 406 ELSE 200]
  /\ UNCHANGED <<serverVars, permCall, pdf>>

NextAccept == Negotiate

SpecAccept == InitAccept /\ [][NextAccept]_vars

----------------------------------------------------------------------------
(* Properties of the freshness reconciliation *)

AfterLoadPlan ==
  {"loadPlansForUser", "loadMaDMPFromDynamo", "handleMissingMaDMP",
   "persistMaDMPRecord", "respond"}

Touched(rec) == rec.cacheReads > 0 \/ rec.rebuilds > 0 \/ rec.writeOp # "none"

\* C1: loadPlan comes before any cache lookup: a request that goes on after
\* loadPlan holds the plan's row, a request that has read the cache, rebuilt
\* or written has read the source of record first, and a request that ends
\* right after loadPlan without an exception (no row found) is answered
\* 404 "Plan not found" without any cache read, rebuild or cache write.
C1_PlanNotFoundBeforeCache ==
  \A r \in Requests :
    LET rec == reqs[r] IN
    /\ rec.pc \in AfterLoadPlan => IsDefined(rec.plan)
    /\ Touched(rec) => rec.srcReads >= 1 /\ rec.text # "Plan not found"
    /\ (rec.pc = "done" /\ rec.threw = "" /\ rec.srcReads = 1) =>
         /\ rec.status = 404 /\ rec.text = "Plan not found"
         /\ ~Touched(rec)

\* a request for a plan the source of record does not hold was answered 404
\* although DynamoDB holds a record for the identifier
C1_Witness ==
  \E r \in Requests :
    /\ reqs[r].pc = "done" /\ reqs[r].status = 404
    /\ reqs[r].text = "Plan not found"
    /\ ~IsDefined(rds) /\ IsDefined(dynamo)

\* C2: a regeneration is persisted with createDMP iff the request found no
\* cached copy, and with updateDMP iff it found a cached copy with another
\* timestamp.
C2_CreateIffMissing ==
  \A r \in Requests :
    reqs[r].writeOp # "none" =>
      /\ reqs[r].writeOp = "createDMP" <=> reqs[r].cacheWas = "missing"
      /\ reqs[r].writeOp = "updateDMP" <=> reqs[r].cacheWas = "stale"

\* C3 as stated: every document a request has rebuilt and written carries
\* the timestamp T2 that the request read with loadPlan.
C3_WrittenTimestampIsT2 ==
  \A r \in Requests :
    (reqs[r].pc = "respond" /\ reqs[r].writeOk) =>
      ModifiedOf(reqs[r].maDMP) = RdsDate(reqs[r].plan)

\* C3 as amended: a request that found a stale copy rebuilds once and, when
\* the rebuild yields a document, writes it with updateDMP; the document
\* written and then returned is exactly the rebuilt one, whose timestamp is
\* the source of record's at the time of the rebuild, which is T2 when the
\* source did not change since loadPlan; nothing else is ever written.
C3_WrittenIsRebuilt ==
  /\ [](\A r \in Requests :
          (reqs[r].pc = "respond" /\ reqs[r].cacheWas = "stale") =>
            /\ reqs[r].rebuilds = 1
            /\ HasDmp(reqs[r].maDMP) =>
                 reqs[r].writeOp = "updateDMP" /\ reqs[r].writeOk)
  /\ [][/\ \A r \in Requests :
            /\ (reqs[r].pc = "handleMissingMaDMP" /\ reqs'[r].pc = "persistMaDMPRecord") =>
                 /\ ModifiedOf(reqs'[r].maDMP) = RdsDate(PlanOf(rds))
                 /\ PlanOf(rds) = reqs[r].plan =>
                      ModifiedOf(reqs'[r].maDMP) = RdsDate(reqs[r].plan)
            /\ (reqs[r].pc = "persistMaDMPRecord" /\ reqs'[r].pc = "respond") =>
                 dynamo' = reqs[r].maDMP /\ reqs'[r].maDMP = reqs[r].maDMP
            /\ (reqs[r].pc = "respond" /\ reqs'[r].status = 200) =>
                 reqs'[r].doc = Get(reqs[r].maDMP).dmp
        /\ dynamo' # dynamo =>
             \E r \in Requests :
               reqs[r].pc = "persistMaDMPRecord" /\ dynamo' = reqs[r].maDMP]_vars

\* a stale copy (T1) was replaced by a rebuilt document carrying T2
C3_Witness ==
  \E r \in Requests :
    /\ reqs[r].pc = "respond" /\ reqs[r].cacheWas = "stale"
    /\ IsDefined(reqs[r].cached)
    /\ reqs[r].writeOp = "updateDMP" /\ reqs[r].writeOk
    /\ ModifiedOf(reqs[r].maDMP) = RdsDate(reqs[r].plan)
    /\ ModifiedOf(reqs[r].cached) # RdsDate(reqs[r].plan)
    /\ dynamo = reqs[r].maDMP

\* C4: a request that finds the cached copy fresh (its timestamp equals the
\* source of record's) makes no rebuild and no cache write, keeps the cached
\* copy as its document, and returns that copy.
C4_FreshIsServedFromCache ==
  /\ [](\A r \in Requests :
          reqs[r].cacheWas = "fresh" =>
            /\ reqs[r].rebuilds = 0
            /\ reqs[r].writeOp = "none"
            /\ reqs[r].pc = "respond" =>
                 reqs[r].maDMP = reqs[r].cached /\ HasDmp(reqs[r].cached))
  /\ [][\A r \in Requests :
          /\ (reqs[r].cacheWas = "fresh" /\ reqs[r].pc = "respond"
                /\ reqs'[r].status = 200) =>
               reqs'[r].doc = Get(reqs[r].cached).dmp
          /\ (reqs[r].cacheWas = "fresh" /\ reqs'[r] # reqs[r]) =>
               dynamo' = dynamo]_vars

\* a request answered 200 from a fresh cached copy, which is still in place
C4_Witness ==
  \E r \in Requests :
    /\ reqs[r].pc = "done" /\ reqs[r].cacheWas = "fresh"
    /\ reqs[r].status = 200
    /\ HasDmp(dynamo) /\ reqs[r].doc = Get(dynamo).dmp

\* resolve handed a document to the rest of the handler
Resolved(rec) ==
  /\ rec.pc = "done"
  /\ \/ rec.status \in {200, 406}
     \/ rec.text = "DMP not found"
     \/ rec.threw \in {"render", "hasPermissionToDownloadNarrative"}

C6_FailedRebuildWritesNothing ==
  \A r \in Requests :
    LET rec == reqs[r] IN
    /\ rec.pc = "persistMaDMPRecord" => HasDmp(rec.maDMP)
    /\ (rec.pc = "respond" /\ rec.rebuilds > 0 /\ ~HasDmp(rec.maDMP)) =>
         rec.writeOp = "none"
    /\ (rec.pc = "respond" /\ rec.writeOp # "none") => HasDmp(rec.maDMP)
    /\ (rec.pc = "done" /\ rec.rebuilds > 0 /\ rec.writeOp = "none" /\ rec.threw = "") =>
         /\ rec.status = 500
         /\ rec.text = "Unable to generate a narrative at this time"
    /\ rec.text = "Unable to generate a narrative at this time" =>
         rec.status = 500 /\ rec.writeOp = "none"

\* a failed rebuild was answered 500 and the old cached copy is still there
C6_Witness ==
  \E r \in Requests :
    /\ reqs[r].pc = "done" /\ reqs[r].status = 500
    /\ reqs[r].text = "Unable to generate a narrative at this time"
    /\ reqs[r].rebuilds = 1 /\ reqs[r].cacheWas = "stale"
    /\ \A q \in Requests : reqs[q].writeOp = "none"
    /\ IsDefined(dynamo)

\* C7: a request whose rebuilt document could not be written to the cache
\* is not answered with an error (500).
C7_WriteFailureStillServed ==
  \A r \in Requests :
    (reqs[r].pc = "done" /\ reqs[r].writeOp # "none" /\ ~reqs[r].writeOk) =>
      reqs[r].status # 500

\* C8 (concurrent calls, source of record unchanged): when all calls have
\* completed, having found the copy stale or missing and rebuilt from a
\* complete plan, none of them failed on its cache write and the cached
\* copy carries the source of record's timestamp.
C8_RacingCallsAllSucceed ==
  (/\ IsDefined(rds)
   /\ \A r \in Requests :
        /\ reqs[r].pc = "done"
        /\ reqs[r].cacheWas \in {"missing", "stale"}
        /\ reqs[r].writeOp # "none") =>
    /\ \A r \in Requests : reqs[r].writeOk /\ reqs[r].threw \notin {"createDMP", "updateDMP"}
    /\ ModifiedOf(dynamo) = RdsDate(PlanOf(rds))

\* the response to a request for a plan that does not exist
NotFoundResponse == [status |-> 404, text |-> "Plan not found"]

\* the caller of the request is refused by the permission gate on the plan
LacksPermission(rec) ==
  /\ IsDefined(rds)
  /\ ~hasPermissionToDownloadNarrative(
        BuildMaDMP(Get(rds)),
        PlansOfCollaborator(IF IsDefined(rec.token) THEN Get(rec.token).email ELSE ""),
        rec.token)

\* C9: a caller without permission on an existing plan gets the very
\* response (status and body) of a request for a plan that does not exist,
\* whatever the state of the plan's cached copy.
C9_ForbiddenLooksLikeNotFound ==
  \A r \in Requests :
    (reqs[r].pc = "done" /\ LacksPermission(reqs[r])
       /\ reqs[r].threw \notin {"loadPlan", "loadPlansForUser", "loadMaDMPFromDynamo",
                                "planToDMPCommonStandard"}) =>
      [status |-> reqs[r].status, text |-> reqs[r].text] = NotFoundResponse

----------------------------------------------------------------------------
(* Properties of the permission gate *)

\* the identifiers the claim compares the token's affiliation with
DefinedPlanAffiliations(dmp) ==
  {PlanAffiliations(dmp)[i] : i \in 1..Len(PlanAffiliations(dmp))} \ {Undefined}

\* the decision C10 states
C10_Expected(data, userDMPs, token) ==
  LET dmp == Get(Get(data).dmp) IN
  IF dmp.privacy = "public" THEN TRUE
  ELSE IF ~IsDefined(token) THEN FALSE
  ELSE IF Get(token).role = "SUPERADMIN" THEN TRUE
  ELSE \/ /\ Get(token).role = "ADMIN"
          /\ Get(token).affiliationId \in DefinedPlanAffiliations(dmp)
       \/ \E i \in 1..Len(userDMPs) : userDMPs[i].dmpId = dmp.dmp_id

\* C10: the gate returns true for a public plan; otherwise false without a
\* token, true for SUPERADMIN, true for ADMIN whose affiliation identifier
\* is the contact's or a contributor's, true when the plan is in the
\* caller's list, and false in every remaining case.
C10_GateDecision ==
  (permCall.state = "returned" /\ ~permCall.threw) =>
    permCall.result = C10_Expected(permCall.data, permCall.userDMPs, permCall.token)

\* the plan is in the caller's list
InUserDMPs(data, userDMPs) ==
  \E i \in 1..Len(userDMPs) : userDMPs[i].dmpId = Get(Get(data).dmp).dmp_id

\* C29: for a plan that is not public, an ADMIN caller is granted access by
\* the affiliation rule only when the token carries a defined affiliation
\* identifier present on the plan's contact or on one of its contributors; an
\* identifier absent on both sides is no match, and a contact or contributor
\* without an affiliation list does not make the gate throw.
C29_AdminNeedsDefinedAffiliation ==
  (/\ permCall.state = "returned"
   /\ Get(Get(permCall.data).dmp).privacy # "public"
   /\ IsDefined(permCall.token) /\ Get(permCall.token).role = "ADMIN") =>
    /\ ~permCall.threw
    /\ (permCall.result /\ ~InUserDMPs(permCall.data, permCall.userDMPs)) =>
         /\ IsDefined(Get(permCall.token).affiliationId)
         /\ Get(permCall.token).affiliationId
              \in DefinedPlanAffiliations(Get(Get(permCall.data).dmp))

BadAnswer(answer, defaults) ==
  LET json == JsonOf(answer)
  IN  /\ IsStr(TypeOf(json))
      /\ \/ Get(TypeOf(json)).str \notin KnownTypes
         \/ ~safeParse(json, defaults)

HasMarker(tokens) ==
  \E i \in 1..Len(tokens) :
    tokens[i] \in {Text("Unable to render this answer (unknown type)."),
                   Text("Unable to render this answer (invalid answer).")}

\* C12: for every answer whose type tag is unknown or whose payload does not
\* match the schema of its tag, rendering the question does not throw and
\* yields the inline 'Unable to render this answer' marker.
C12_BadAnswerRendersMarker ==
  (call.fn = "questionAnswerForDisplay" /\ call.state # "called"
     /\ BadAnswer(call.args.answer, call.args.defaults)) =>
    call.state = "returned" /\ HasMarker(call.result)

\* the type-specific rule of the 'answered' determination
C13_Expected(answer) ==
  LET json == JsonOf(answer)
      t == TypeOf(json)
      a == AnswerOf(json)
      defined(v) == v # Undefined
      has(name) == IsObj(a) /\ name \in DOMAIN Get(a).obj /\ defined(Get(a).obj[name])
  IN  IF ~IsDefined(answer) \/ ~IsDefined(json) THEN FALSE
      ELSE IF t = JsStr("boolean") THEN TRUE
      ELSE IF t \in {JsStr("currency"), JsStr("number")} THEN defined(a)
      ELSE IF t \in {JsStr("dateRange"), JsStr("numberRange")}
        THEN has("start") \/ has("end")
      ELSE IF t \in {JsStr("checkBoxes"), JsStr("multiselectBox")}
        THEN IsArr(a) /\ Get(a).arr # <<>>
      ELSE IF t = JsStr("affiliationSearch")
        THEN has("affiliationId") \/ has("affiliationName")
      ELSE ~IsNullish(a) /\ Trim(toString(a)) # ""

\* C13: for every tag and payload the 'answered' determination of
\* questionAnswerForDisplay is made and equals the type-specific rule.
C13_AnsweredRule ==
  (call.fn = "questionAnswerForDisplay" /\ call.state # "called"
     /\ (~IsDefined(JsonOf(call.args.answer))
           \/ IsStr(TypeOf(JsonOf(call.args.answer))))) =>
    call.state = "returned" /\ call.answered = C13_Expected(call.args.answer)

HasQuestionText(tokens, question) ==
  \E i \in 1..(Len(tokens) - 2) : SubSeq(tokens, i, i + 2) = QuestionText(question)

C15_HeaderOnlyWhenAbsentOrEmpty ==
  (call.fn = "renderCSV" /\ call.state # "called"
     /\ (~IsDefined(SectionsOf(call.args.data)) \/ SectionsOf(call.args.data) = Some(<<>>))) =>
    /\ call.state = "returned"
    /\ call.result =
         << (IF call.args.display.includeSectionHeadings THEN <<"Section">> ELSE <<>>)
              \o (IF call.args.display.includeQuestionText THEN <<"Question">> ELSE <<>>)
              \o <<"Answer">> >>

\* C15 (amended): for a plan whose narrative has an empty list of sections,
\* renderCSV emits exactly one header row with the enabled columns (Section
\* iff includeSectionHeadings, Question iff includeQuestionText, then Answer)
\* and no data row; for a plan whose narrative (or its list of sections) is
\* absent it names no column at all and emits no data row.
C15_HeaderOnlyWhenEmpty ==
  (call.fn = "renderCSV" /\ call.state # "called") =>
    /\ SectionsOf(call.args.data) = Some(<<>>) =>
         /\ call.state = "returned"
         /\ call.result =
              << (IF call.args.display.includeSectionHeadings THEN <<"Section">> ELSE <<>>)
                   \o (IF call.args.display.includeQuestionText THEN <<"Question">> ELSE <<>>)
                   \o <<"Answer">> >>
    /\ ~IsDefined(SectionsOf(call.args.data)) =>
         /\ call.state = "returned"
         /\ call.result \in {<<>>, <<<<>>>>}

\* a plan with an empty list of sections was rendered with only two columns
C15_Witness ==
  /\ call.fn = "renderCSV" /\ call.state = "returned"
  /\ SectionsOf(call.args.data) = Some(<<>>)
  /\ ~call.args.display.includeSectionHeadings
  /\ call.result = <<<<"Question", "Answer">>>>

HasAngleBracket(txt) == \E i \in 1..Len(txt) : txt[i] \in {"<", ">"}
HasStyleText(txt) == \E i \in 1..Len(txt) : txt[i] = StyleText

CountIn(xs, S) == Cardinality({i \in 1..Len(xs) : xs[i] \in S})

HasNotYetAnswered(tokens) ==
  \E i \in 1..Len(tokens) : tokens[i] = Text("Not yet answered.")

\* C28: whenever questionAnswerForDisplay classifies a question as answered,
\* the answer slot it emits is the rendered value or an 'Unable to render'
\* marker and never the 'Not yet answered.' placeholder, for every tag and
\* payload (a number or currency value 0 included).
C28_AnsweredNeverPlaceholder ==
  (/\ call.fn = "questionAnswerForDisplay" /\ call.state = "returned"
   /\ call.answered) =>
    ~HasNotYetAnswered(call.result)

\* C17: renderDOCX passes each margin m > 0 as round((m / 25.4) * 1440)
\* twips and a font size of p > 0 pixels as round((p / 96) * 72 * 2)
\* half-points; only absent or non-positive inputs yield 0.
C17_DocxUnits ==
  (call.fn = "renderDOCX" /\ call.state # "called") =>
    LET twip(m) == IF m > 0 THEN RoundDiv(m * 14400, 254) ELSE 0
        hip(q) == IF q > 0 THEN RoundDiv(q * 144, 96) ELSE 0
    IN  /\ call.options.margins.top = twip(call.args.margin.marginTop)
        /\ call.options.margins.right = twip(call.args.margin.marginRight)
        /\ call.options.margins.bottom = twip(call.args.margin.marginBottom)
        /\ call.options.margins.left = twip(call.args.margin.marginLeft)
        /\ call.options.fontSize = hip(call.args.font.fontSize.px)

\* C18: pointsToFontSize maps 8, 9, 10, 12, 13, 14 points to 11px, 12px, 13px,
\* 16px, 17px, 19px and every other value to the default 15px.
C18_FontSizeTable ==
  (call.fn = "pointsToFontSize" /\ call.state = "returned") =>
    call.result =
      CASE call.points = 8 -> Px(11) [] call.points = 9 -> Px(12)
        [] call.points = 10 -> Px(13) [] call.points = 12 -> Px(16)
        [] call.points = 13 -> Px(17) [] call.points = 14 -> Px(19)
        [] OTHER -> Px(15)

HasResearchOutputsAppendix(tokens) ==
  \E i \in 1..Len(tokens) : tokens[i] = Text("Planned Research Outputs")

\* C19: renderHTML emits a research-outputs appendix iff includeResearchOutputs
\* is true and the plan carries research outputs, whatever the other toggles.
C19_ResearchOutputsAppendix ==
  (call.fn = "renderHTML" /\ call.state = "returned") =>
    /\ HasResearchOutputsAppendix(call.result) <=>
         (call.args.display.includeResearchOutputs /\ HasItems(call.args.data.dataset))
    /\ HasItems(call.args.data.dataset) =>
         call.result #
           renderHTML([call.args.display EXCEPT !.includeResearchOutputs = ~@],
                      call.args.margin, call.args.font, call.args.data, call.args.defaults)

\* C20: a request with the version query parameter is served the version of
\* the plan that the parameter selects, and two requests for the plan that
\* differ only in version are served the respective versions.
C20_VersionSelectsPlan ==
  /\ \A r \in Requests :
       (reqs[r].pc = "done" /\ reqs[r].status = 200 /\ IsDefined(reqs[r].version)) =>
         Get(reqs[r].doc).modified = [rfc3339 |-> Get(reqs[r].version)]
  /\ \A r, q \in Requests :
       (/\ reqs[r].pc = "done" /\ reqs[r].status = 200
        /\ reqs[q].pc = "done" /\ reqs[q].status = 200
        /\ IsDefined(reqs[r].version) /\ IsDefined(reqs[q].version)
        /\ reqs[r].version # reqs[q].version) =>
         reqs[r].doc # reqs[q].doc

----------------------------------------------------------------------------
(* Properties of the handler's store accesses and of its responses *)

BailOut == "Unable to generate a narrative at this time"

C23_EveryListedTypeCounts ==
  (call.fn = "negotiate" /\ call.state = "returned" /\ IsDefined(call.args.header)) =>
    LET listed == ListedTypes(Get(call.args.header)) IN
    /\ listed \cap SupportedTypes # {} =>
         call.status = 200 /\ call.format \in listed \cap SupportedTypes
    /\ call.status = 406 => listed \cap SupportedTypes = {}

\* C26: a request of a caller whom the permission gate refuses causes no
\* rebuild of the canonical model and no write to the cache: the permission
\* decision is taken before regeneration and persistence.
C26_RefusedCallerChangesNothing ==
  \A r \in Requests :
    (reqs[r].pc = "done" /\ reqs[r].status = 404 /\ reqs[r].text = "DMP not found") =>
      reqs[r].rebuilds = 0 /\ reqs[r].writeOp = "none"

\* C27: on every path through the handler exactly one response is sent: once
\* a response has been sent the handler never attempts to send another one.
C27_ExactlyOneResponse ==
  \A r \in Requests : reqs[r].pc = "done" => reqs[r].sendAttempts = 1

----------------------------------------------------------------------------
(* Properties of the cover page and the related-works appendix *)

\* C21: renderHTML never throws for a plan in which optional fields are
\* absent (contact, its identifier or affiliation; the contributor list, a
\* contributor's role or identifier; the project list, a project's funding or
\* dates; the narrative; the related works, a work's type or citation).
C21_AbsentFieldsNeverThrow ==
  call.fn = "renderHTML" => call.state # "threw"

\* the tokens of the related-works appendix of a document
Appendix(tokens) ==
  LET starts == {i \in 1..Len(tokens) : tokens[i] = Text("Related Works")}
  IN  IF starts = {} THEN <<>>
      ELSE SubSeq(tokens, CHOOSE i \in starts : TRUE, Len(tokens))

\* the labels of the groups of the appendix, in document order
GroupLabels(tokens) ==
  LET appendix == Appendix(tokens)
      IsLabel(i) == i > 1 /\ appendix[i - 1] = Open("strong")
      at == SelectSeq([i \in 1..Len(appendix) |-> i], IsLabel)
  IN  [k \in 1..Len(at) |-> appendix[at[k]].text]

\* a work has the type: its type is that string or an array that holds it
HasType(work, type) ==
  IF IsStr(work.type) THEN Get(work.type).str = type
  ELSE Includes(Get(work.type).arr, type)

WorksOfType(works, type) == SelectSeq(works, LAMBDA w : HasType(w, type))

\* C24: the groups of the related-works appendix appear in first-seen order
\* of the distinct work types; the label of a group is the humanized type,
\* pluralized unless the group holds exactly one item.
C24_GroupLabels ==
  (/\ call.fn = "renderHTML" /\ call.state = "returned"
   /\ call.args.display.includeRelatedWorks
   /\ HasItems(call.args.data.related_identifier)) =>
    LET works == Get(call.args.data.related_identifier)
        types == UniqueTypes(WorkTypes(works), {})
    IN  GroupLabels(call.result) =
          [k \in 1..Len(types) |->
             workTypeForDisplay(types[k], Len(WorksOfType(works, types[k])) # 1)]

\* the ISO dates of the projects from the earliest to the latest
Chronological == <<JsStr("2023-12-15"), JsStr("2024-01-02"), JsStr("2025-04-10")>>

\* the dates of the list in chronological order
ByTime(dates) ==
  LET At(k) == SelectSeq(dates, LAMBDA d : d = Chronological[k])
  IN  At(1) \o At(2) \o At(3)

\* the value the cover page shows after a label
CoverValue(tokens, label) ==
  tokens[(CHOOSE i \in 1..Len(tokens) : tokens[i] = Text(label)) + 3].text

\* C25: for a non-empty list of projects the cover page shows the
\* chronologically earliest start date and the chronologically latest end date
\* of the listed projects, whatever their order.
C25_EarliestStartLatestEnd ==
  (/\ call.fn = "renderHTML" /\ call.state = "returned"
   /\ call.args.display.includeCoverPage
   /\ HasItems(call.args.data.project)) =>
    LET project == Get(call.args.data.project)
        starts == ByTime([i \in 1..Len(project) |-> project[i].start])
        ends == ByTime([i \in 1..Len(project) |-> project[i].end])
    IN  /\ starts # <<>> =>
             CoverValue(call.result, "Start date: ") = formatDate(starts[1], FALSE)
        /\ ends # <<>> =>
             CoverValue(call.result, "End date: ") = formatDate(ends[Len(ends)], FALSE)

\* the number of works listed in the groups of the appendix
ListedItems(tokens) ==
  LET appendix == Appendix(tokens)
  IN  Cardinality({i \in 1..(Len(appendix) - 1) :
                     appendix[i] = Open("li") /\ appendix[i + 1] # Open("strong")})

\* C30: in the related-works appendix every related work is listed exactly
\* once, in the group of its own type: as many items are listed as there are
\* related works, and each group holds the works of its type and no other.
C30_EachWorkListedOnce ==
  (/\ call.fn = "renderHTML" /\ call.state = "returned"
   /\ call.args.display.includeRelatedWorks
   /\ HasItems(call.args.data.related_identifier)) =>
    LET works == Get(call.args.data.related_identifier)
        types == UniqueTypes(WorkTypes(works), {})
    IN  /\ ListedItems(call.result) = Len(works)
        /\ \A k \in 1..Len(types) :
             relatedWorksForType(types[k], works)
               = relatedWorksForType(types[k], WorksOfType(works, types[k]))

====
